---- MODULE Spec2Model ----
(***************************************************************************)
(* Kiro (AWS CodeWhisperer) executor of CLIProxyAPI:                        *)
(*   - the AWS event-stream JSON recognizer (parseKiroStreamBuffer),        *)
(*   - the ExecuteStream goroutine that turns upstream records into         *)
(*     Claude SSE events, and parseKiroResponse of Execute,                 *)
(*   - buildKiroRequest,                                                    *)
(*   - Execute / ExecuteStream up to the response (403 -> Refresh -> retry) *)
(*     with KiroExecutor.Refresh and KiroAuth.RefreshTokens.                *)
(* Text is a sequence of one-character strings; Go offsets are 0-based.     *)
(***************************************************************************)
EXTENDS Integers, Sequences, FiniteSets, TLC

(* ------------------------------------------------------------------ *)
(* Bytes and strings                                                   *)
(* ------------------------------------------------------------------ *)

Q == "\""
BSL == "\\"

\* s[i] of Go (0-based).
At(s, i) == s[i + 1]

\* s[a:b] of Go.
Slice(s, a, b) == IF b <= a THEN << >> ELSE SubSeq(s, a + 1, b)

\* strings.HasPrefix(s[i:], p)
MatchAt(s, i, p) ==
    /\ i + Len(p) <= Len(s)
    /\ \A k \in 1..Len(p) : s[i + k] = p[k]

Min(S) == CHOOSE x \in S : \A y \in S : x <= y

RECURSIVE Concat(_)
Concat(ss) == IF ss = << >> THEN << >> ELSE Head(ss) \o Concat(Tail(ss))

\* The five leading patterns the recognizer looks for.
PatContent == << "{", Q, "c", "o", "n", "t", "e", "n", "t", Q, ":" >>
PatName == << "{", Q, "n", "a", "m", "e", Q, ":" >>
PatFollowup == << "{", Q, "f", "o", "l", "l", "o", "w", "u", "p", "P", "r", "o", "m", "p", "t", Q, ":" >>
PatInput == << "{", Q, "i", "n", "p", "u", "t", Q, ":" >>
PatStop == << "{", Q, "s", "t", "o", "p", Q, ":" >>
Patterns == { PatContent, PatName, PatFollowup, PatInput, PatStop }

\* JSON keys the classifier reads.
KContent == << "c", "o", "n", "t", "e", "n", "t" >>
KFollowup == << "f", "o", "l", "l", "o", "w", "u", "p", "P", "r", "o", "m", "p", "t" >>
KName == << "n", "a", "m", "e" >>
KToolUseId == << "t", "o", "o", "l", "U", "s", "e", "I", "d" >>
KInput == << "i", "n", "p", "u", "t" >>
KStop == << "s", "t", "o", "p" >>

LitTrue == << "t", "r", "u", "e" >>
LitFalse == << "f", "a", "l", "s", "e" >>
LitNull == << "n", "u", "l", "l" >>

(* ------------------------------------------------------------------ *)
(* encoding/json as the recognizer uses it: json.Unmarshal of one      *)
(* brace-balanced slice into map[string]interface{}.  Objects whose    *)
(* members are strings, booleans or null, written without white space. *)
(* ------------------------------------------------------------------ *)

JStr(v) == [t |-> "str", s |-> v, b |-> FALSE]
JBool(v) == [t |-> "bool", s |-> << >>, b |-> v]
JNull == [t |-> "null", s |-> << >>, b |-> FALSE]
JsonErr == [ok |-> FALSE, obj |-> << >>]

\* Scan a JSON string body from offset i (just past the opening quote).
\* Result: ok, the decoded value, the offset just past the closing quote.
RECURSIVE JsonStringFrom(_, _, _)
JsonStringFrom(s, i, acc) ==
    IF i >= Len(s) THEN [ok |-> FALSE, val |-> << >>, next |-> i]
    ELSE IF At(s, i) = Q THEN [ok |-> TRUE, val |-> acc, next |-> i + 1]
    ELSE IF At(s, i) = BSL THEN
        IF i + 1 >= Len(s) THEN [ok |-> FALSE, val |-> << >>, next |-> i]
        ELSE IF At(s, i + 1) \in {Q, BSL} THEN JsonStringFrom(s, i + 2, Append(acc, At(s, i + 1)))
        ELSE [ok |-> FALSE, val |-> << >>, next |-> i]
    ELSE JsonStringFrom(s, i + 1, Append(acc, At(s, i)))

\* One value at offset i: a string or one of the literals true, false, null.
JsonValueAt(s, i) ==
    IF i >= Len(s) THEN [ok |-> FALSE, val |-> JNull, next |-> i]
    ELSE IF At(s, i) = Q THEN
        LET r == JsonStringFrom(s, i + 1, << >>)
        IN [ok |-> r.ok, val |-> JStr(r.val), next |-> r.next]
    ELSE IF MatchAt(s, i, LitTrue) THEN [ok |-> TRUE, val |-> JBool(TRUE), next |-> i + 4]
    ELSE IF MatchAt(s, i, LitFalse) THEN [ok |-> TRUE, val |-> JBool(FALSE), next |-> i + 5]
    ELSE IF MatchAt(s, i, LitNull) THEN [ok |-> TRUE, val |-> JNull, next |-> i + 4]
    ELSE [ok |-> FALSE, val |-> JNull, next |-> i]

\* Members from offset i (at the opening quote of a key); a later duplicate
\* key replaces an earlier one, as in Go.
RECURSIVE JsonMembers(_, _, _)
JsonMembers(s, i, acc) ==
    IF i >= Len(s) \/ At(s, i) # Q THEN JsonErr
    ELSE
        LET k == JsonStringFrom(s, i + 1, << >>)
        IN IF ~k.ok \/ k.next >= Len(s) \/ At(s, k.next) # ":" THEN JsonErr
           ELSE
               LET v == JsonValueAt(s, k.next + 1)
                   acc2 == (k.val :> v.val) @@ acc
               IN IF ~v.ok \/ v.next >= Len(s) THEN JsonErr
                  ELSE IF At(s, v.next) = "}" THEN
                      IF v.next + 1 = Len(s) THEN [ok |-> TRUE, obj |-> acc2] ELSE JsonErr
                  ELSE IF At(s, v.next) = "," THEN JsonMembers(s, v.next + 1, acc2)
                  ELSE JsonErr

JsonUnmarshal(s) ==
    IF Len(s) < 2 \/ At(s, 0) # "{" THEN JsonErr
    ELSE IF Len(s) = 2 /\ At(s, 1) = "}" THEN [ok |-> TRUE, obj |-> << >>]
    ELSE JsonMembers(s, 1, << >>)

\* parsed[k].(string), parsed[k].(bool), _, has := parsed[k], parsed[k] == nil
HasKey(obj, k) == k \in DOMAIN obj
IsString(obj, k) == HasKey(obj, k) /\ obj[k].t = "str"
IsBool(obj, k) == HasKey(obj, k) /\ obj[k].t = "bool"
IsNil(obj, k) == ~HasKey(obj, k) \/ obj[k].t = "null"

(* ------------------------------------------------------------------ *)
(* kiroStreamEvent and parseKiroStreamBuffer                           *)
(* ------------------------------------------------------------------ *)

NilToolUse == [nil |-> TRUE, Name |-> << >>, ToolUseId |-> << >>, Input |-> << >>]
kiroToolUse(name, id, input) == [nil |-> FALSE, Name |-> name, ToolUseId |-> id, Input |-> input]

kiroStreamEvent(type, content, toolUse, toolInput, toolStop) ==
    [Type |-> type, Content |-> content, ToolUse |-> toolUse, ToolInput |-> toolInput, ToolStop |-> toolStop]

\* The if/else chain over the unmarshalled map.
ClassifyParsed(parsed) ==
       IF IsString(parsed, KContent) THEN
           IF ~HasKey(parsed, KFollowup)
           THEN << kiroStreamEvent("content", parsed[KContent].s, NilToolUse, << >>, FALSE) >>
           ELSE << >>
       ELSE IF IsString(parsed, KName) THEN
           IF IsString(parsed, KToolUseId)
           THEN << kiroStreamEvent("toolUse", << >>,
                       kiroToolUse(parsed[KName].s, parsed[KToolUseId].s,
                                   IF IsString(parsed, KInput) THEN parsed[KInput].s ELSE << >>),
                       << >>,
                       IF IsBool(parsed, KStop) THEN parsed[KStop].b ELSE FALSE) >>
           ELSE << >>
       ELSE IF HasKey(parsed, KInput) /\ IsNil(parsed, KName) THEN
           IF IsString(parsed, KInput)
           THEN << kiroStreamEvent("toolUseInput", << >>, NilToolUse, parsed[KInput].s, FALSE) >>
           ELSE << >>
       ELSE IF HasKey(parsed, KStop) /\ IsNil(parsed, KName) THEN
           IF IsBool(parsed, KStop) /\ parsed[KStop].b
           THEN << kiroStreamEvent("toolUseStop", << >>, NilToolUse, << >>, TRUE) >>
           ELSE << >>
       ELSE << >>

\* json.Unmarshal's result: an error skips the record.
ClassifyUnmarshalled(u) == IF ~u.ok THEN << >> ELSE ClassifyParsed(u.obj)

\* The events one complete record yields.
ClassifyRecord(jsonStr) == ClassifyUnmarshalled(JsonUnmarshal(jsonStr))

\* Earliest offset >= searchStart at which one of the patterns starts, or -1.
FindJsonStart(remaining, searchStart) ==
    LET hits == { i \in searchStart..(Len(remaining) - 1) :
                    /\ At(remaining, i) = "{"
                    /\ \E p \in Patterns : MatchAt(remaining, i, p) }
    IN IF hits = {} THEN -1 ELSE Min(hits)

\* The bracket-counting scan from jsonStart: offset of the matching "}" or -1.
RECURSIVE ScanBraces(_, _, _, _, _)
ScanBraces(remaining, i, braceCount, inString, escapeNext) ==
    IF i >= Len(remaining) THEN -1
    ELSE LET ch == At(remaining, i)
         IN IF escapeNext THEN ScanBraces(remaining, i + 1, braceCount, inString, FALSE)
            ELSE IF ch = BSL THEN ScanBraces(remaining, i + 1, braceCount, inString, TRUE)
            ELSE IF ch = Q THEN ScanBraces(remaining, i + 1, braceCount, ~inString, FALSE)
            ELSE IF ~inString /\ ch = "{" THEN ScanBraces(remaining, i + 1, braceCount + 1, inString, FALSE)
            ELSE IF ~inString /\ ch = "}" THEN
                IF braceCount - 1 = 0 THEN i
                ELSE ScanBraces(remaining, i + 1, braceCount - 1, inString, FALSE)
            ELSE ScanBraces(remaining, i + 1, braceCount, inString, FALSE)

\* What the incomplete-record branch leaves in `remaining` before the break.
IncompleteTail(remaining, jsonStart) == Slice(remaining, jsonStart, Len(remaining))

\* The for loop: the state (events, remaining, searchStart) at its break.
RECURSIVE ParseLoop(_, _, _)
ParseLoop(remaining, searchStart, events) ==
    LET jsonStart == FindJsonStart(remaining, searchStart)
    IN IF jsonStart < 0
       THEN [events |-> events, remaining |-> remaining, searchStart |-> searchStart]
       ELSE
           LET jsonEnd == ScanBraces(remaining, jsonStart, 0, FALSE, FALSE)
           IN IF jsonEnd < 0
              THEN [events |-> events, remaining |-> IncompleteTail(remaining, jsonStart),
                    searchStart |-> searchStart]
              ELSE
                  LET events2 == events \o ClassifyRecord(Slice(remaining, jsonStart, jsonEnd + 1))
                  IN IF jsonEnd + 1 >= Len(remaining)
                     THEN [events |-> events2, remaining |-> << >>, searchStart |-> jsonEnd + 1]
                     ELSE ParseLoop(remaining, jsonEnd + 1, events2)

\* The trailing adjustment of `remaining` by searchStart after the loop.
TrimBySearchStart(remaining, searchStart) ==
    IF searchStart > 0 /\ searchStart < Len(remaining)
    THEN Slice(remaining, searchStart, Len(remaining))
    ELSE IF searchStart >= Len(remaining) THEN << >>
    ELSE remaining

\* What the function returns for the state the loop ended in.
ParseResult(l) == [events |-> l.events, remaining |-> TrimBySearchStart(l.remaining, l.searchStart)]

parseKiroStreamBuffer(buffer) == ParseResult(ParseLoop(buffer, 0, << >>))

parseKiroStreamEvents(line) == parseKiroStreamBuffer(line).events

(* ------------------------------------------------------------------ *)
(* Claude SSE events the stream goroutine builds                       *)
(* ------------------------------------------------------------------ *)

\* countTextTokens / estimateOutputTokens: (len + 3) / 4, 0 for "".
countTextTokens(text) == IF text = << >> THEN 0 ELSE (Len(text) + 3) \div 4
estimateOutputTokens(content) == countTextTokens(content)

SSE(type, index, kind, text, id, name, tokens) ==
    [type |-> type, index |-> index, kind |-> kind, text |-> text, id |-> id, name |-> name,
     tokens |-> tokens]

buildClaudeMessageStart == SSE("message_start", -1, "", << >>, << >>, << >>, 0)
buildClaudeContentBlockStart(index) == SSE("content_block_start", index, "text", << >>, << >>, << >>, 0)
buildClaudeContentBlockDelta(index, text) == SSE("content_block_delta", index, "text_delta", text, << >>, << >>, 0)
buildClaudeContentBlockStop(index) == SSE("content_block_stop", index, "", << >>, << >>, << >>, 0)
buildClaudeToolUseStart(index, toolUseId, name) == SSE("content_block_start", index, "tool_use", << >>, toolUseId, name, 0)
buildClaudeToolInputDelta(index, input) == SSE("content_block_delta", index, "input_json_delta", input, << >>, << >>, 0)
buildClaudeMessageDelta(stopReason, outputTokens) == SSE("message_delta", -1, stopReason, << >>, << >>, << >>, outputTokens)
MessageStopEvent == SSE("message_stop", -1, "", << >>, << >>, << >>, 0)

(* ------------------------------------------------------------------ *)
(* ExecuteStream goroutine: the locals it carries across reads         *)
(*   h.out          chunks sent on the channel so far                  *)
(*   h.lastContent, h.totalContent, h.blockIndex, h.currentToolUse,    *)
(*   h.toolInput (toolInputBuilder)                                    *)
(* ------------------------------------------------------------------ *)

\* The dedup test of the read loop: skip a content event equal to lastContent.
IsRepeat(content, lastContent) == content = lastContent

\* A "content" event with non-empty content, in the read loop.
HandleContent(h, event) ==
    IF IsRepeat(event.Content, h.lastContent) THEN h
    ELSE [h EXCEPT !.lastContent = event.Content,
                   !.totalContent = @ \o event.Content,
                   !.out = Append(@, buildClaudeContentBlockDelta(h.blockIndex, event.Content))]

\* A "toolUse" event: open a block if none is open, inline input, inline stop.
HandleToolUse(h, event) ==
    LET closeText == h.currentToolUse.nil /\ h.blockIndex = 0 /\ Len(h.totalContent) > 0
        h1 == IF h.currentToolUse.nil
              THEN LET idx == IF closeText THEN h.blockIndex + 1 ELSE h.blockIndex
                   IN [h EXCEPT !.out = (IF closeText THEN Append(@, buildClaudeContentBlockStop(h.blockIndex)) ELSE @)
                                         \o << buildClaudeToolUseStart(idx, event.ToolUse.ToolUseId, event.ToolUse.Name) >>,
                                !.blockIndex = idx,
                                !.currentToolUse = event.ToolUse,
                                !.toolInput = << >>]
              ELSE h
        h2 == IF event.ToolUse.Input # << >>
              THEN [h1 EXCEPT !.toolInput = @ \o event.ToolUse.Input,
                              !.out = Append(@, buildClaudeToolInputDelta(h1.blockIndex, event.ToolUse.Input))]
              ELSE h1
    IN IF event.ToolStop
       THEN [h2 EXCEPT !.out = Append(@, buildClaudeContentBlockStop(h2.blockIndex)),
                       !.blockIndex = @ + 1,
                       !.currentToolUse = NilToolUse]
       ELSE h2

\* A "toolUseInput" event with non-empty input.
HandleToolInput(h, event) ==
    [h EXCEPT !.toolInput = @ \o event.ToolInput,
              !.out = Append(@, buildClaudeToolInputDelta(h.blockIndex, event.ToolInput))]

\* A "toolUseStop" event.
HandleToolStop(h, event) ==
    IF ~h.currentToolUse.nil
    THEN [h EXCEPT !.out = Append(@, buildClaudeContentBlockStop(h.blockIndex)),
                   !.blockIndex = @ + 1,
                   !.currentToolUse = NilToolUse]
    ELSE h

\* One iteration of `for _, event := range events` in the read loop.
HandleEvent(h, event) ==
    IF event.Type = "content" /\ event.Content # << >> THEN HandleContent(h, event)
    ELSE IF event.Type = "toolUse" /\ ~event.ToolUse.nil THEN HandleToolUse(h, event)
    ELSE IF event.Type = "toolUseInput" /\ event.ToolInput # << >> THEN HandleToolInput(h, event)
    ELSE IF event.Type = "toolUseStop" /\ event.ToolStop THEN HandleToolStop(h, event)
    ELSE h

RECURSIVE HandleEvents(_, _)
HandleEvents(h, events) ==
    IF events = << >> THEN h ELSE HandleEvents(HandleEvent(h, Head(events)), Tail(events))

\* One event of the buffer left after EOF: lastContent is compared, not updated.
HandleLeftoverEvent(h, event) ==
    IF event.Type = "content" /\ event.Content # << >> /\ event.Content # h.lastContent
    THEN [h EXCEPT !.totalContent = @ \o event.Content,
                   !.out = Append(@, buildClaudeContentBlockDelta(h.blockIndex, event.Content))]
    ELSE h

RECURSIVE HandleLeftover(_, _)
HandleLeftover(h, events) ==
    IF events = << >> THEN h ELSE HandleLeftover(HandleLeftoverEvent(h, Head(events)), Tail(events))

\* (variant) the tool block open at EOF is closed without advancing blockIndex.
CloseBlocks_KeepIndex(h) ==
    LET h1 == IF ~h.currentToolUse.nil
              THEN [h EXCEPT !.out = Append(@, buildClaudeContentBlockStop(h.blockIndex)),
                             !.currentToolUse = NilToolUse]
              ELSE h
    IN IF h1.blockIndex = 0 /\ h.currentToolUse.nil
       THEN [h1 EXCEPT !.out = Append(@, buildClaudeContentBlockStop(0))]
       ELSE h1

\* After the leftover buffer: close an open tool block, close the text block.
CloseBlocks(h) ==
    LET h1 == IF ~h.currentToolUse.nil
              THEN [h EXCEPT !.out = Append(@, buildClaudeContentBlockStop(h.blockIndex)),
                             !.blockIndex = @ + 1,
                             !.currentToolUse = NilToolUse]
              ELSE h
    IN IF h1.blockIndex = 0
       THEN [h1 EXCEPT !.out = Append(@, buildClaudeContentBlockStop(0))]
       ELSE h1

\* (variant) message_stop sent before message_delta.
FinishMessage_StopFirst(h) ==
    LET stopReason == IF h.blockIndex > 0 THEN "tool_use" ELSE "end_turn"
        outputTokens == estimateOutputTokens(h.totalContent \o h.toolInput)
    IN [h EXCEPT !.out = @ \o << MessageStopEvent, buildClaudeMessageDelta(stopReason, outputTokens) >>]

\* message_delta with the stop reason and the token estimate, then message_stop.
FinishMessage(h) ==
    LET stopReason == IF h.blockIndex > 0 THEN "tool_use" ELSE "end_turn"
        outputTokens == estimateOutputTokens(h.totalContent \o h.toolInput)
    IN [h EXCEPT !.out = @ \o << buildClaudeMessageDelta(stopReason, outputTokens), MessageStopEvent >>]

\* Everything the goroutine does between the loop's break on EOF and its return.
FinishStream(h, buffer) ==
    LET h1 == IF Len(buffer) > 0 THEN HandleLeftover(h, parseKiroStreamBuffer(buffer).events) ELSE h
    IN FinishMessage(CloseBlocks(h1))

(* ------------------------------------------------------------------ *)
(* parseKiroResponse (Execute): the response, and its content[0].text   *)
(* ------------------------------------------------------------------ *)

RECURSIVE JoinContent(_)
JoinContent(events) ==
    IF events = << >> THEN << >>
    ELSE (IF Head(events).Type = "content" THEN Head(events).Content ELSE << >>) \o JoinContent(Tail(events))

parseKiroResponse(data) ==
    LET fullContent == JoinContent(parseKiroStreamEvents(data))
    IN [stop_reason |-> "end_turn", text |-> fullContent, output_tokens |-> estimateOutputTokens(fullContent),
        content |-> << [type |-> "text", text |-> fullContent] >>]

(* ------------------------------------------------------------------ *)
(* Upstream: the records the response body carries, and their bytes    *)
(* ------------------------------------------------------------------ *)

\* MaxRecs: records in one streamed body;  MaxParseRecs: records in a body
\* that is delivered byte by byte.
MaxRecs == 4
MaxParseRecs == 2

UpRec(kind, text, name, id, stop) == [kind |-> kind, text |-> text, name |-> name, id |-> id, stop |-> stop]
UpContent(text) == UpRec("content", text, << >>, << >>, FALSE)
UpToolUse(name, id, input, stop) == UpRec("toolUse", input, name, id, stop)
UpInput(text) == UpRec("input", text, << >>, << >>, FALSE)
UpStop == UpRec("stop", << >>, << >>, << >>, TRUE)
UpFollowup(text) == UpRec("followup", text, << >>, << >>, FALSE)

\* A string as JSON text: quote and backslash are escaped.
RECURSIVE JsonEscape(_)
JsonEscape(text) ==
    IF text = << >> THEN << >>
    ELSE (IF Head(text) \in {Q, BSL} THEN << BSL, Head(text) >> ELSE << Head(text) >>) \o JsonEscape(Tail(text))

JsonQuote(text) == << Q >> \o JsonEscape(text) \o << Q >>

\* The JSON payload of one upstream record.
RecordJson(r) ==
    IF r.kind = "content" THEN PatContent \o JsonQuote(r.text) \o << "}" >>
    ELSE IF r.kind = "followup" THEN
        PatFollowup \o JsonQuote(r.text) \o << ",", Q >> \o KContent \o << Q, ":" >> \o JsonQuote(r.text) \o << "}" >>
    ELSE IF r.kind = "toolUse" THEN
        PatName \o JsonQuote(r.name) \o << ",", Q >> \o KToolUseId \o << Q, ":" >> \o JsonQuote(r.id)
            \o (IF r.text # << >> THEN << ",", Q >> \o KInput \o << Q, ":" >> \o JsonQuote(r.text) ELSE << >>)
            \o (IF r.stop THEN << ",", Q >> \o KStop \o << Q, ":" >> \o LitTrue ELSE << >>)
            \o << "}" >>
    ELSE IF r.kind = "input" THEN PatInput \o JsonQuote(r.text) \o << "}" >>
    ELSE PatStop \o LitTrue \o << "}" >>

\* One event-stream message: envelope bytes around the JSON payload (the
\* executor never parses the envelope; one byte stands for each side).
RecordBytes(r) == << "#" >> \o RecordJson(r) \o << "~" >>

RECURSIVE BodyBytes(_)
BodyBytes(recs) == IF recs = << >> THEN << >> ELSE RecordBytes(Head(recs)) \o BodyBytes(Tail(recs))

\* How the transport may cut the body into reads: a read returns one or more
\* consecutive pieces.  Pieces are half messages, or single bytes.
RECURSIVE HalfPieces(_)
HalfPieces(recs) ==
    IF recs = << >> THEN << >>
    ELSE LET b == RecordBytes(Head(recs))
             m == Len(b) \div 2
         IN << Slice(b, 0, m), Slice(b, m, Len(b)) >> \o HalfPieces(Tail(recs))

BytePieces(bytes) == [i \in 1..Len(bytes) |-> << bytes[i] >>]

SeqsUpTo(S, n) == UNION { [1..k -> S] : k \in 1..n }

StreamRecords ==
    { UpContent(<< "a" >>), UpContent(<< "b" >>), UpToolUse(<< "n" >>, << "t" >>, << "x" >>, FALSE), UpStop }

ParseRecords ==
    { UpContent(<< "a" >>), UpContent(<< >>), UpContent(<< "}", Q >>), UpStop }

(* ------------------------------------------------------------------ *)
(* State                                                               *)
(* ------------------------------------------------------------------ *)

VARIABLES
    \* --- ExecuteStream goroutine ---
    upstream,        \* the records of the upstream response body
    pending,         \* pieces of the body not yet returned by decodedBody.Read
    spc,             \* the goroutine: "idle", "start", "reading", "done", "failed"
    buffer,          \* bytes.Buffer carried between reads
    out,             \* chunks sent on the channel `out`, in order
    chanClosed,      \* close(out) has run
    lastContent,
    totalContent,
    blockIndex,
    currentToolUse,
    toolInput,       \* toolInputBuilder
    fed,             \* every event parseKiroStreamBuffer returned to the read loop, in order
    usage,           \* the usage reporter of the streaming request
    delivered,       \* how many chunks of `out` the consumer has received
    consumer,        \* the consumer of the channel: "receiving" or "stopped"
    cancelled,       \* the inbound request's context is cancelled
    \* --- buildKiroRequest ---
    body,      \* the translated Claude-form request body
    reqModel,        \* upstreamModel
    kiroReq,         \* the request built from it
    bpc,             \* "idle", "ready", "built"
    \* --- Execute / ExecuteStream calls and the account ---
    meta,            \* Metadata of every Auth object: Pool is the manager's account, c the Auth handed to call c
    lock,            \* the per-account lock of the manager: "free" or "held"
    pc,              \* pc[p]: where process p stands (the refresh loop is process Pool)
    cl,              \* cl[p]: locals of process p
    now,             \* wall clock, in ticks
    rotations,       \* the (accessToken, refreshToken, expiresAt) before and after the account's latest refresh
    expiryLog,       \* expiryLog[o]: the expiresAt values of the latest store into object o, old then new
    \* --- credential files ---
    disk,            \* the text of the credential file
    others,          \* the texts of the other JSON files of its directory
    saver,           \* a Save of the file: where it stands, the bytes it writes, how many are written
    reader,          \* a reader of the file: where it stands, what os.ReadFile returned, what it loaded
    loaded,          \* the loader that ran, on what, and what it returned
    contents,        \* every complete text the file was given
    \* --- the refresh request, the authenticator's accounts, the quota query ---
    refreshCall,     \* a call of RefreshTokens: its token data and the request it sent
    authStore,       \* the credential files to load, the Auth each load returned, the accounts by file name
    quota            \* GetAntigravityQuotas: the accounts, the one being queried, the attempt, the answers

streamVars == << upstream, pending, spc, buffer, out, chanClosed, lastContent, totalContent,
                 blockIndex, currentToolUse, toolInput, fed, usage, delivered, consumer, cancelled >>
buildVars == << body, reqModel, kiroReq, bpc >>
execVars == << meta, lock, pc, cl, now, rotations, expiryLog >>

credVars == << disk, others, saver, reader, loaded, contents >>

svcVars == << refreshCall, authStore, quota >>

vars == << streamVars, buildVars, execVars, credVars, svcVars >>

\* The usage reporter of one request: its guard flag and what it has recorded.
newUsageReporter == [once |-> FALSE, success |-> 0, failure |-> 0]

ensurePublished(r) == IF r.once THEN r ELSE [r EXCEPT !.once = TRUE, !.success = @ + 1]

publishFailure(r) == IF r.once THEN r ELSE [r EXCEPT !.once = TRUE, !.failure = @ + 1]

trackFailure(r, err) == IF err THEN publishFailure(r) ELSE r

Locals == [out |-> out, lastContent |-> lastContent, totalContent |-> totalContent,
           blockIndex |-> blockIndex, currentToolUse |-> currentToolUse, toolInput |-> toolInput]

SetLocals(h) ==
    /\ out' = h.out
    /\ lastContent' = h.lastContent
    /\ totalContent' = h.totalContent
    /\ blockIndex' = h.blockIndex
    /\ currentToolUse' = h.currentToolUse
    /\ toolInput' = h.toolInput


\* No stream, no request under construction, no call: the values the variables
\* of the other parts keep in a specification that does not use them.
StreamIdle ==
    /\ upstream = << >>
    /\ pending = << >>
    /\ spc = "idle"
    /\ buffer = << >>
    /\ out = << >>
    /\ chanClosed = FALSE
    /\ lastContent = << >>
    /\ totalContent = << >>
    /\ blockIndex = 0
    /\ currentToolUse = NilToolUse
    /\ toolInput = << >>
    /\ fed = << >>
    /\ usage = newUsageReporter
    /\ delivered = 0
    /\ consumer = "receiving"
    /\ cancelled = FALSE

BuildIdle ==
    /\ body = << >>
    /\ reqModel = ""
    /\ kiroReq = << >>
    /\ bpc = "idle"

ExecIdle ==
    /\ meta = << >>
    /\ lock = "free"
    /\ pc = << >>
    /\ cl = << >>
    /\ now = 0
    /\ rotations = {}
    /\ expiryLog = << >>

\* KiroTokenData with every field empty.
NoTokenData ==
    [AccessToken |-> 0, RefreshToken |-> 0, ClientID |-> "", ClientSecret |-> "", AuthMethod |-> "",
     ExpiresAt |-> 0, ProfileArn |-> "", Region |-> ""]

IdleSaver == [pc |-> "idle", data |-> << >>, written |-> 0, runs |-> 0]
IdleReader == [pc |-> "idle", data |-> << >>, err |-> FALSE, td |-> NoTokenData]
NoLoad == [by |-> "", data |-> << >>, err |-> FALSE, td |-> NoTokenData]

CredIdle ==
    /\ disk = << >>
    /\ others = << >>
    /\ saver = IdleSaver
    /\ reader = IdleReader
    /\ loaded = NoLoad
    /\ contents = {}

IdleRefreshCall == [pc |-> "idle", tokenData |-> NoTokenData, url |-> << >>, body |-> << >>]
IdleStore == [files |-> << >>, auths |-> << >>, pool |-> {}]
NoReturn == [set |-> FALSE, quotas |-> "", err |-> ""]
IdleQuota == [pc |-> "idle", auths |-> << >>, i |-> 0, attempt |-> 0, lastErr |-> "",
              log |-> << >>, ret |-> NoReturn, result |-> {}]

SvcIdle ==
    /\ refreshCall = IdleRefreshCall
    /\ authStore = IdleStore
    /\ quota = IdleQuota

ErrChunk == SSE("error", -1, "", << >>, << >>, << >>, 0)

StreamInitLocals ==
    /\ spc = "start"
    /\ buffer = << >>
    /\ out = << >>
    /\ chanClosed = FALSE
    /\ lastContent = << >>
    /\ totalContent = << >>
    /\ blockIndex = 0
    /\ currentToolUse = NilToolUse
    /\ toolInput = << >>
    /\ fed = << >>
    /\ usage = newUsageReporter
    /\ delivered = 0
    /\ consumer = "receiving"
    /\ cancelled = FALSE

\* ExecuteStream has a 2xx response whose body carries `upstream`.
InitStream ==
    /\ upstream \in SeqsUpTo(StreamRecords, MaxRecs)
    /\ pending = HalfPieces(upstream)
    /\ StreamInitLocals
    /\ BuildIdle
    /\ ExecIdle
    /\ CredIdle
    /\ SvcIdle

InitParse ==
    /\ upstream \in SeqsUpTo(ParseRecords, MaxParseRecs)
    /\ pending = BytePieces(BodyBytes(upstream))
    /\ StreamInitLocals
    /\ BuildIdle
    /\ ExecIdle
    /\ CredIdle
    /\ SvcIdle

\* The goroutine up to its first Read: message_start, content_block_start(0).
StreamStart ==
    /\ spc = "start"
    /\ spc' = "reading"
    /\ out' = << buildClaudeMessageStart, buildClaudeContentBlockStart(0) >>
    /\ UNCHANGED << upstream, pending, buffer, chanClosed, lastContent, totalContent, blockIndex,
                    currentToolUse, toolInput, fed, usage, delivered, consumer, cancelled >>
    /\ UNCHANGED << buildVars, credVars, svcVars, execVars >>

\* (variant) a failed read falls through to the end of the message.
FailStream_ThenFinish(h) == FinishMessage([h EXCEPT !.out = Append(@, ErrChunk)])

\* readErr other than io.EOF: the chunk carrying the error, then return.
FailStream(h) == [h EXCEPT !.out = Append(@, ErrChunk)]

\* The rest of an iteration of the read loop, given what the parse returned
\* (res) and the locals after its events were handled (h1).
ReadStep(res, h1, readErr) ==
    /\ buffer' = res.remaining
    /\ fed' = fed \o res.events
    /\ IF readErr = "nil" THEN
           /\ SetLocals(h1)
           /\ UNCHANGED spc
       ELSE IF readErr = "fail" THEN
           /\ SetLocals(FailStream(h1))
           /\ spc' = "failed"
       ELSE
           /\ SetLocals(FinishStream(h1, res.remaining))
           /\ spc' = "done"

\* "for _, event := range events": every event of this read is handled in order.
ReadParsed(res, readErr) == ReadStep(res, HandleEvents(Locals, res.events), readErr)

\* n > 0: buffer.Write, parseKiroStreamBuffer, buffer.Reset, buffer.WriteString(remaining).
ReadData(data, readErr) ==
    ReadParsed(IF Len(data) > 0 THEN parseKiroStreamBuffer(buffer \o data)
               ELSE [events |-> << >>, remaining |-> buffer], readErr)

\* One iteration of the read loop: Read returns the next k pieces and readErr.
\* readErr: "nil", "EOF" (only once the body is exhausted) or "fail".
\* n > 0: append, parse, handle every event, keep the remainder.
\* readErr = "fail": publishFailure, error chunk, return.  "EOF": break, finish.
ReadBody(k, readErr) ==
    /\ spc = "reading"
    /\ k \in 0..Len(pending)
    /\ readErr = "nil" => k > 0
    /\ readErr = "EOF" => k = Len(pending)
    /\ pending' = SubSeq(pending, k + 1, Len(pending))
    /\ ReadData(Concat(SubSeq(pending, 1, k)), readErr)

\* reporter.publishFailure(ctx) on a read error other than io.EOF.
ReadUsage(r, readErr) == IF readErr = "fail" THEN publishFailure(r) ELSE r

\* The iteration with a consumer that takes every chunk as it is sent: the
\* goroutine runs to its return, where ensurePublished and the deferred
\* close(out) run.
StreamRead(k, readErr) ==
    /\ ReadBody(k, readErr)
    /\ usage' = ReadUsage(IF readErr = "EOF" THEN ensurePublished(usage) ELSE usage, readErr)
    /\ chanClosed' = (readErr # "nil")
    /\ UNCHANGED << upstream, delivered, consumer, cancelled, buildVars, credVars, svcVars, execVars >>

ReadErrs == { "nil", "EOF", "fail" }

NextStream ==
    \/ StreamStart
    \/ \E k \in 0..Len(pending), readErr \in ReadErrs : StreamRead(k, readErr)

SpecStream == InitStream /\ [][NextStream]_vars
SpecParse == InitParse /\ [][NextStream]_vars

\* Bodies of tool traffic: two tool uses with distinct ids, a tool use with
\* an inline stop, a tool-input continuation, a tool stop and a text,
\* in every order.
MaxToolRecs == 3

ToolRecords ==
    { UpContent(<< "a" >>), UpToolUse(<< "n" >>, << "t" >>, << >>, FALSE),
      UpToolUse(<< "m" >>, << "u" >>, << >>, FALSE), UpToolUse(<< "n" >>, << "t" >>, << >>, TRUE),
      UpInput(<< "x" >>), UpStop }

InitTools ==
    /\ upstream \in SeqsUpTo(ToolRecords, MaxToolRecs)
    /\ pending = HalfPieces(upstream)
    /\ StreamInitLocals
    /\ BuildIdle
    /\ ExecIdle
    /\ CredIdle
    /\ SvcIdle

SpecTools == InitTools /\ [][NextStream]_vars

(* ------------------------------------------------------------------ *)
(* The goroutine with its consumer and the request's context          *)
(*   `out` is unbuffered: every send waits for the consumer            *)
(* ------------------------------------------------------------------ *)

MaxCancelRecs == 1

\* Every chunk the goroutine has sent was received: it is not blocked in a send.
SendsDone == delivered = Len(out)

InitCancel ==
    /\ upstream \in SeqsUpTo(StreamRecords, MaxCancelRecs)
    /\ pending = HalfPieces(upstream)
    /\ StreamInitLocals
    /\ BuildIdle
    /\ ExecIdle
    /\ CredIdle
    /\ SvcIdle

\* An iteration of the read loop, entered once the sends of the previous one
\* are through.  A cancelled context makes the body's Read fail.
BlockingRead(k, readErr) ==
    /\ SendsDone
    /\ cancelled => readErr = "fail"
    /\ ReadBody(k, readErr)
    /\ usage' = ReadUsage(usage, readErr)
    /\ UNCHANGED << upstream, chanClosed, delivered, consumer, cancelled, buildVars, credVars, svcVars, execVars >>

\* "out <- chunk" meets a receive of the consumer.
Receive ==
    /\ consumer = "receiving"
    /\ delivered < Len(out)
    /\ delivered' = delivered + 1
    /\ UNCHANGED << upstream, pending, spc, buffer, out, chanClosed, lastContent, totalContent,
                    blockIndex, currentToolUse, toolInput, fed, usage, consumer, cancelled >>
    /\ UNCHANGED << buildVars, credVars, svcVars, execVars >>

\* The inbound request's context is cancelled.
Cancel ==
    /\ ~cancelled
    /\ ~chanClosed
    /\ cancelled' = TRUE
    /\ UNCHANGED << upstream, pending, spc, buffer, out, chanClosed, lastContent, totalContent,
                    blockIndex, currentToolUse, toolInput, fed, usage, delivered, consumer >>
    /\ UNCHANGED << buildVars, credVars, svcVars, execVars >>

\* The consumer, having cancelled, stops receiving.
ConsumerStop ==
    /\ cancelled
    /\ consumer = "receiving"
    /\ consumer' = "stopped"
    /\ UNCHANGED << upstream, pending, spc, buffer, out, chanClosed, lastContent, totalContent,
                    blockIndex, currentToolUse, toolInput, fed, usage, delivered, cancelled >>
    /\ UNCHANGED << buildVars, credVars, svcVars, execVars >>

\* Variant: the channel is closed at the end of the function body only, not
\* on the return after a read error.
GoroutineReturn_AtEndOnly ==
    /\ spc = "done"
    /\ ~chanClosed
    /\ SendsDone
    /\ usage' = ensurePublished(usage)
    /\ chanClosed' = TRUE
    /\ UNCHANGED << upstream, pending, spc, buffer, out, lastContent, totalContent,
                    blockIndex, currentToolUse, toolInput, fed, delivered, consumer, cancelled >>
    /\ UNCHANGED << buildVars, credVars, svcVars, execVars >>

\* The goroutine returns: ensurePublished at the end of the function body,
\* then the deferred close(out).
GoroutineReturn ==
    /\ spc \in { "done", "failed" }
    /\ ~chanClosed
    /\ SendsDone
    /\ usage' = IF spc = "done" THEN ensurePublished(usage) ELSE usage
    /\ chanClosed' = TRUE
    /\ UNCHANGED << upstream, pending, spc, buffer, out, lastContent, totalContent,
                    blockIndex, currentToolUse, toolInput, fed, delivered, consumer, cancelled >>
    /\ UNCHANGED << buildVars, credVars, svcVars, execVars >>

BlockingReads == \E k \in 0..Len(pending), readErr \in ReadErrs : BlockingRead(k, readErr)

NextCancel ==
    \/ StreamStart
    \/ BlockingReads
    \/ Receive
    \/ Cancel
    \/ ConsumerStop
    \/ GoroutineReturn

\* The read loop can take its next iteration.
ReadEnabled == spc = "reading" /\ SendsDone

\* Weak fairness of the read loop, WF_vars(BlockingReads), with the enabling
\* condition written out.
FairReads == []<>(~ReadEnabled) \/ []<><<BlockingReads>>_vars

\* The scheduler runs the goroutine whenever it can take a step, and a send
\* completes whenever the consumer stays ready to receive.
SpecCancel ==
    /\ InitCancel
    /\ [][NextCancel]_vars
    /\ WF_vars(StreamStart)
    /\ FairReads
    /\ WF_vars(Receive)
    /\ WF_vars(GoroutineReturn)

(* ------------------------------------------------------------------ *)
(* buildKiroRequest                                                    *)
(* A Claude body: system (absent, a string, or an array of blocks),    *)
(* messages (role, content as a string or an array of parts), tools.   *)
(* ------------------------------------------------------------------ *)

NL == "\n"
OriginAIEditor == "AI_EDITOR"
ChatTriggerTypeManual == "MANUAL"
AuthMethodSocial == "social"

TextContinue == << "C", "o", "n", "t", "i", "n", "u", "e" >>
TextToolResultsProvided ==
    << "T", "o", "o", "l", " ", "r", "e", "s", "u", "l", "t", "s", " ", "p", "r", "o", "v", "i", "d", "e", "d", "." >>

\* kiroModelMapping, and the lookup with pass-through of unknown names.
kiroModelMapping ==
    [m \in { "claude-opus-4-5", "claude-opus-4-5-20251101", "claude-haiku-4-5", "claude-sonnet-4-5",
             "claude-sonnet-4-5-20250929", "claude-sonnet-4-20250514", "claude-3-7-sonnet-20250219" } |->
        CASE m = "claude-opus-4-5" -> "claude-opus-4.5"
          [] m = "claude-opus-4-5-20251101" -> "claude-opus-4.5"
          [] m = "claude-haiku-4-5" -> "claude-haiku-4.5"
          [] m = "claude-sonnet-4-5" -> "CLAUDE_SONNET_4_5_20250929_V1_0"
          [] m = "claude-sonnet-4-5-20250929" -> "CLAUDE_SONNET_4_5_20250929_V1_0"
          [] m = "claude-sonnet-4-20250514" -> "CLAUDE_SONNET_4_20250514_V1_0"
          [] m = "claude-3-7-sonnet-20250219" -> "CLAUDE_3_7_SONNET_20250219_V1_0"]

\* (variant) the requested model name is sent as it is.
MapKiroModel_PassThrough(model) == model

MapKiroModel(model) == IF model \in DOMAIN kiroModelMapping THEN kiroModelMapping[model] ELSE model

\* Parts of a message's content array.
TextPart(text) == [type |-> "text", text |-> text, id |-> "", name |-> ""]
ToolUsePart(id, name) == [type |-> "tool_use", text |-> << >>, id |-> id, name |-> name]
ToolResultPart(id, text) == [type |-> "tool_result", text |-> text, id |-> id, name |-> ""]
ImagePart(mediaType) == [type |-> "image", text |-> << >>, id |-> "", name |-> mediaType]

StringContent(text) == [isArray |-> FALSE, text |-> text, parts |-> << >>]
ArrayContent(parts) == [isArray |-> TRUE, text |-> << >>, parts |-> parts]
ClaudeMsg(role, content) == [role |-> role, content |-> content]

NoSystem == [kind |-> "none", text |-> << >>, parts |-> << >>]
StringSystem(text) == [kind |-> "string", text |-> text, parts |-> << >>]
ArraySystem(parts) == [kind |-> "array", text |-> << >>, parts |-> parts]

\* strings.Join(parts, sep)
RECURSIVE JoinWith(_, _)
JoinWith(texts, sep) ==
    IF texts = << >> THEN << >>
    ELSE IF Len(texts) = 1 THEN Head(texts)
    ELSE Head(texts) \o sep \o JoinWith(Tail(texts), sep)

\* strings.TrimSpace
IsSpace(ch) == ch \in { " ", NL, "\t", "\r" }
RECURSIVE TrimLeft(_)
TrimLeft(text) == IF text # << >> /\ IsSpace(Head(text)) THEN TrimLeft(Tail(text)) ELSE text
RECURSIVE TrimRight(_)
TrimRight(text) ==
    IF text # << >> /\ IsSpace(text[Len(text)]) THEN TrimRight(SubSeq(text, 1, Len(text) - 1)) ELSE text
TrimSpace(text) == TrimRight(TrimLeft(text))

\* The system prompt: text blocks of an array joined by "\n", a string verbatim.
ExtractSystemPrompt(system) ==
    IF system.kind = "none" THEN << >>
    ELSE IF system.kind = "array"
    THEN LET texts == SelectSeq(system.parts, LAMBDA b : b.type = "text")
         IN JoinWith([i \in 1..Len(texts) |-> texts[i].text], << NL >>)
    ELSE system.text

\* One message split into text, tool uses, tool results and images.
RECURSIVE JoinPartText(_)
JoinPartText(parts) ==
    IF parts = << >> THEN << >>
    ELSE (IF Head(parts).type = "text" THEN Head(parts).text ELSE << >>) \o JoinPartText(Tail(parts))

ToolUseOf(part) == [name |-> part.name, toolUseId |-> part.id]
ToolResultOf(part) == [content |-> part.text, status |-> "success", toolUseId |-> part.id]
ImageOf(part) == [format |-> part.name]

MapSeq(seq, Op(_)) == [i \in 1..Len(seq) |-> Op(seq[i])]

ProcessMessage(msg) ==
    IF msg.content.isArray
    THEN [Role |-> msg.role,
          Content |-> JoinPartText(msg.content.parts),
          ToolUses |-> MapSeq(SelectSeq(msg.content.parts, LAMBDA q : q.type = "tool_use"), ToolUseOf),
          ToolResults |-> MapSeq(SelectSeq(msg.content.parts, LAMBDA q : q.type = "tool_result"), ToolResultOf),
          Images |-> MapSeq(SelectSeq(msg.content.parts, LAMBDA q : q.type = "image"), ImageOf)]
    ELSE [Role |-> msg.role, Content |-> msg.content.text,
          ToolUses |-> << >>, ToolResults |-> << >>, Images |-> << >>]

\* Remove a last assistant message whose trimmed text is "{".
DropTrailingBrace(processed) ==
    IF Len(processed) > 0
       /\ processed[Len(processed)].Role = "assistant"
       /\ TrimSpace(processed[Len(processed)].Content) = << "{" >>
    THEN SubSeq(processed, 1, Len(processed) - 1)
    ELSE processed

\* Merge adjacent messages with the same role.
RECURSIVE MergeInto(_, _)
MergeInto(merged, rest) ==
    IF rest = << >> THEN merged
    ELSE LET msg == Head(rest)
             lastIdx == Len(merged)
         IN IF lastIdx = 0 THEN MergeInto(<< msg >>, Tail(rest))
            ELSE IF merged[lastIdx].Role = msg.Role
            THEN MergeInto([merged EXCEPT ![lastIdx] =
                               [Role |-> @.Role,
                                Content |-> @.Content \o << NL >> \o msg.Content,
                                ToolUses |-> @.ToolUses \o msg.ToolUses,
                                ToolResults |-> @.ToolResults \o msg.ToolResults,
                                Images |-> @.Images \o msg.Images]],
                           Tail(rest))
            ELSE MergeInto(Append(merged, msg), Tail(rest))

MergeAdjacent(processed) == MergeInto(<< >>, processed)

\* dedupeToolResults: the first result of every toolUseId, in order.
RECURSIVE DedupeFrom(_, _)
DedupeFrom(results, seen) ==
    IF results = << >> THEN << >>
    ELSE IF Head(results).toolUseId \in seen THEN DedupeFrom(Tail(results), seen)
    ELSE << Head(results) >> \o DedupeFrom(Tail(results), seen \cup { Head(results).toolUseId })

\* Variant: only a result that repeats the toolUseId just before it is dropped.
RECURSIVE dedupeToolResults_Adjacent(_)
dedupeToolResults_Adjacent(results) ==
    IF Len(results) < 2 THEN results
    ELSE IF results[Len(results) - 1].toolUseId = results[Len(results)].toolUseId
    THEN dedupeToolResults_Adjacent(SubSeq(results, 1, Len(results) - 1))
    ELSE Append(dedupeToolResults_Adjacent(SubSeq(results, 1, Len(results) - 1)), results[Len(results)])

dedupeToolResults(results) == DedupeFrom(results, {})

\* Variant: the user entries of history name the default model.
HistoryUser_DefaultModel(content, kiroModel, images, toolResults) ==
    [kind |-> "userInputMessage", content |-> content, modelId |-> "claude-opus-4.5", origin |-> OriginAIEditor,
     images |-> images, toolResults |-> dedupeToolResults(toolResults), toolUses |-> << >>]

\* Entries of history.
HistoryUser(content, kiroModel, images, toolResults) ==
    [kind |-> "userInputMessage", content |-> content, modelId |-> kiroModel, origin |-> OriginAIEditor,
     images |-> images, toolResults |-> dedupeToolResults(toolResults), toolUses |-> << >>]
HistoryAssistant(content, toolUses) ==
    [kind |-> "assistantResponseMessage", content |-> content, modelId |-> "", origin |-> "",
     images |-> << >>, toolResults |-> << >>, toolUses |-> toolUses]

\* "Handle system prompt": the entry the system prompt puts into history and
\* the index from which the messages continue.
SystemHistory(systemPrompt, merged, kiroModel) ==
    IF systemPrompt # << >> /\ Len(merged) > 0 /\ merged[1].Role = "user"
    THEN [history |-> << HistoryUser(systemPrompt \o << NL, NL >> \o merged[1].Content, kiroModel,
                                     merged[1].Images, merged[1].ToolResults) >>,
          startIndex |-> 1]
    ELSE IF systemPrompt # << >>
    THEN [history |-> << HistoryUser(systemPrompt, kiroModel, << >>, << >>) >>, startIndex |-> 0]
    ELSE [history |-> << >>, startIndex |-> 0]

\* "Add messages to history (except last one)": merged[i] for startIndex <= i < len-1
\* (0-based); a role other than user or assistant adds nothing.
RECURSIVE MiddleHistory(_, _, _)
MiddleHistory(merged, i, kiroModel) ==
    IF i >= Len(merged) - 1 THEN << >>
    ELSE LET msg == merged[i + 1]
         IN (IF msg.Role = "user" THEN << HistoryUser(msg.Content, kiroModel, msg.Images, msg.ToolResults) >>
             ELSE IF msg.Role = "assistant" THEN << HistoryAssistant(msg.Content, msg.ToolUses) >>
             ELSE << >>)
            \o MiddleHistory(merged, i + 1, kiroModel)

\* "Build current message": content, tool results, images, and the history
\* entry of a last assistant message.
CurrentMessage(merged) ==
    IF Len(merged) > 0
    THEN LET lastMsg == merged[Len(merged)]
         IN IF lastMsg.Role = "assistant"
            THEN [content |-> TextContinue, toolResults |-> << >>, images |-> << >>,
                  history |-> << HistoryAssistant(lastMsg.Content, lastMsg.ToolUses) >>]
            ELSE [content |-> lastMsg.Content, toolResults |-> lastMsg.ToolResults,
                  images |-> lastMsg.Images, history |-> << >>]
    ELSE [content |-> << >>, toolResults |-> << >>, images |-> << >>, history |-> << >>]

\* (variant) the guard fills in only when tool results exist.
GuardEmptyContent_ToolResultsOnly(currentContent, currentToolResults) ==
    IF currentContent = << >> /\ Len(currentToolResults) > 0 THEN TextToolResultsProvided ELSE currentContent

\* "Kiro API requires content not empty".
GuardEmptyContent(currentContent, currentToolResults) ==
    IF currentContent = << >>
    THEN IF Len(currentToolResults) > 0 THEN TextToolResultsProvided ELSE TextContinue
    ELSE currentContent

\* The request json.Marshal serializes.  hasHistory: the "history" key is set;
\* hasProfileArn: the "profileArn" key is set.
buildKiroRequest(claudeBody, model, tokenData, conversationID) ==
    LET kiroModel == MapKiroModel(model)
        systemPrompt == ExtractSystemPrompt(claudeBody.system)
        merged == MergeAdjacent(DropTrailingBrace(MapSeq(claudeBody.messages, ProcessMessage)))
        sys == SystemHistory(systemPrompt, merged, kiroModel)
        cur == CurrentMessage(merged)
        history == sys.history \o MiddleHistory(merged, sys.startIndex, kiroModel) \o cur.history
    IN [conversationState |->
          [chatTriggerType |-> ChatTriggerTypeManual,
           conversationId |-> conversationID,
           currentMessage |->
              [userInputMessage |->
                 [content |-> GuardEmptyContent(cur.content, cur.toolResults),
                  modelId |-> kiroModel,
                  origin |-> OriginAIEditor,
                  images |-> cur.images,
                  toolResults |-> dedupeToolResults(cur.toolResults),
                  tools |-> claudeBody.tools]],
           hasHistory |-> Len(history) > 0,
           history |-> history],
        hasProfileArn |-> tokenData.AuthMethod = AuthMethodSocial /\ tokenData.ProfileArn # "",
        profileArn |-> IF tokenData.AuthMethod = AuthMethodSocial THEN tokenData.ProfileArn ELSE ""]

(* ------------------------------------------------------------------ *)
(* Building a request: the inputs and the step                         *)
(* ------------------------------------------------------------------ *)

MaxMsgs == 3

SeqsFrom0(S, n) == UNION { [1..k -> S] : k \in 0..n }

TextU == << "U" >>
TextS == << "S" >>

MsgUniverse ==
    { ClaudeMsg("user", StringContent(TextU)),
      ClaudeMsg("user", StringContent(<< >>)),
      ClaudeMsg("user", ArrayContent(<< ToolResultPart("r1", << "o", "k" >>), ToolResultPart("r2", << "o", "k" >>),
                                        ToolResultPart("r1", << "k", "o" >>) >>)),
      ClaudeMsg("assistant", StringContent(<< "A" >>)),
      ClaudeMsg("assistant", StringContent(<< " ", "{", NL >>)),
      ClaudeMsg("assistant", ArrayContent(<< ToolUsePart("t1", "search") >>)) }

SystemUniverse ==
    { NoSystem, StringSystem(TextS), ArraySystem(<< TextPart(TextS), TextPart(<< "T" >>) >>) }

ToolsUniverse == { << >>, << [name |-> "search", description |-> "d"] >> }

ModelUniverse == { "claude-sonnet-4-5", "amazonq-claude" }

BuildTokenUniverse ==
    { [AuthMethod |-> "social", ProfileArn |-> "arn"], [AuthMethod |-> "idc", ProfileArn |-> "arn"],
      [AuthMethod |-> "social", ProfileArn |-> ""] }

InitBuild ==
    /\ body \in [system : SystemUniverse, messages : SeqsFrom0(MsgUniverse, MaxMsgs), tools : ToolsUniverse]
    /\ reqModel \in ModelUniverse
    /\ kiroReq = << >>
    /\ bpc = "ready"
    /\ StreamIdle
    /\ ExecIdle
    /\ CredIdle
    /\ SvcIdle

\* e.buildKiroRequest(body, upstreamModel, tokenData) with a fresh conversation id.
BuildRequest(tokenData, conversationID) ==
    /\ bpc = "ready"
    /\ kiroReq' = buildKiroRequest(body, reqModel, tokenData, conversationID)
    /\ bpc' = "built"
    /\ UNCHANGED << body, reqModel, streamVars, execVars, credVars, svcVars >>

NextBuild == \E tokenData \in BuildTokenUniverse, conversationID \in { "uuid-1", "uuid-2" } :
                 BuildRequest(tokenData, conversationID)

SpecBuild == InitBuild /\ [][NextBuild]_vars

(* ------------------------------------------------------------------ *)
(* Execute / ExecuteStream around the upstream call, and Refresh       *)
(* ------------------------------------------------------------------ *)
(* Tokens are naturals: 0 is the empty string, 1 the token the account *)
(* starts with, NewToken(p, k) the token the refresh endpoint issues   *)
(* for the k-th refresh of process p.  Times are ticks of the wall     *)
(* clock; an RFC3339 timestamp keeps whole seconds only.               *)

TicksPerSecond == 2
MaxLoopRefreshes == 1

Pool == 0
Calls == { 1, 2 }
Procs == { Pool } \cup Calls

ExpiresIns == { 1, 2 }
Spacings == { 0, 1 }

NewToken(p, k) == 2 + p + Cardinality(Procs) * k

\* time.Time.Format(time.RFC3339): the fraction of the second is dropped.
FormatRFC3339(t) == t \div TicksPerSecond

Is2xx(status) == status >= 200 /\ status < 300

\* What httpClient.Do hands back: an error, or a response with a status and
\* a body that decodeResponseBody accepts or rejects.
NetErr == [err |-> TRUE, status |-> 0, decodes |-> FALSE]
NoResponse == [err |-> FALSE, status |-> 0, decodes |-> FALSE]
HttpResp(status, decodes) == [err |-> FALSE, status |-> status, decodes |-> decodes]
Responses ==
    { NetErr, HttpResp(200, FALSE) } \cup { HttpResp(st, TRUE) : st \in { 200, 403, 429, 500 } }

NoResult == [kind |-> "none", code |-> 0, from |-> 0]
OkResult(n) == [kind |-> "ok", code |-> 200, from |-> n]
statusErr(code, n) == [kind |-> "status", code |-> code, from |-> n]
PlainErr(n) == [kind |-> "error", code |-> 0, from |-> n]

kiroCredsFromAuth(a) ==
    [AccessToken |-> a.accessToken, RefreshToken |-> a.refreshToken,
     ClientID |-> a.clientId, ClientSecret |-> a.clientSecret, AuthMethod |-> a.authMethod,
     ExpiresAt |-> a.expiresAt, ProfileArn |-> a.profileArn, Region |-> a.region]

Triple(td) == << td.AccessToken, td.RefreshToken, td.ExpiresAt >>

\* The refresh endpoint's answers: a failure, or a token response.
RefreshFail == [ok |-> FALSE, hasAccess |-> FALSE, hasRefresh |-> FALSE, expiresIn |-> 0, profileArn |-> ""]
RefreshOk(hasAccess, hasRefresh, expiresIn, profileArn) ==
    [ok |-> TRUE, hasAccess |-> hasAccess, hasRefresh |-> hasRefresh, expiresIn |-> expiresIn,
     profileArn |-> profileArn]
RefreshAnswers ==
    { RefreshFail, RefreshOk(FALSE, TRUE, 1, ""), RefreshOk(TRUE, FALSE, 1, "arn2") }
        \cup { RefreshOk(TRUE, TRUE, e, "") : e \in ExpiresIns }

defaultRegion == "us-east-1"

\* KiroAuth.RefreshTokens on a 200 answer, at time t with n the token issued.
RefreshTokens(tokenData, answer, t, n) ==
    [AccessToken |-> IF answer.hasAccess THEN n ELSE 0,
     RefreshToken |-> IF answer.hasRefresh THEN n ELSE 0,
     ExpiresAt |-> FormatRFC3339(t + answer.expiresIn * TicksPerSecond),
     ProfileArn |-> IF answer.profileArn = "" THEN tokenData.ProfileArn ELSE answer.profileArn,
     ClientID |-> tokenData.ClientID, ClientSecret |-> tokenData.ClientSecret,
     AuthMethod |-> tokenData.AuthMethod,
     Region |-> IF tokenData.Region = "" THEN defaultRegion ELSE tokenData.Region]

Account(accessToken, refreshToken) ==
    [accessToken |-> accessToken, refreshToken |-> refreshToken, expiresAt |-> 0,
     profileArn |-> "arn", authMethod |-> AuthMethodSocial, type |-> "", last_refresh |-> 0,
     clientId |-> "cid", clientSecret |-> "secret", region |-> "", label |-> "work"]

NoAccount == Account(0, 0)

InitialAccounts == { Account(1, 1), Account(1, 0), Account(0, 1) }

Modes == { "Execute", "ExecuteStream" }

\* The translated Claude body of each call's request, and the model it asks for.
ExecBody(c) ==
    IF c = 1
    THEN [system |-> StringSystem(TextS),
          messages |-> << ClaudeMsg("user", StringContent(TextU)),
                          ClaudeMsg("assistant", ArrayContent(<< ToolUsePart("t1", "search") >>)),
                          ClaudeMsg("user", ArrayContent(<< ToolResultPart("r1", << "o", "k" >>) >>)) >>,
          tools |-> << [name |-> "search", description |-> "d"] >>]
    ELSE [system |-> NoSystem,
          messages |-> << ClaudeMsg("user", StringContent(TextU)) >>,
          tools |-> << >>]

ExecModel == "claude-sonnet-4-5"

\* applyKiroHeaders: Authorization is "Bearer " followed by the access token.
applyKiroHeaders(tokenData) == tokenData.AccessToken

NoRequest == [Authorization |-> 0, body |-> << >>]

\* The upstream request: buildKiroRequest over the translated body, then the headers.
UpstreamRequest(c, tokenData, conversationID) ==
    [Authorization |-> applyKiroHeaders(tokenData),
     body |-> buildKiroRequest(ExecBody(c), ExecModel, tokenData, conversationID)]

\* "return resp, err" under "defer reporter.trackFailure(ctx, &err)".
Return(l, result) ==
    [l EXCEPT !.result = result, !.reporter = trackFailure(@, result.kind # "ok")]

\* The success path on the first answer: Execute records the request and returns;
\* ExecuteStream returns the channel and leaves the record to its goroutine.
ReturnSuccess(l, result) ==
    IF l.mode = "Execute" THEN Return([l EXCEPT !.reporter = ensurePublished(@)], result)
    ELSE Return(l, result)

CallLocals ==
    [mode |-> "", tokenData |-> NoTokenData, refTokenData |-> NoTokenData, newTokenData |-> NoTokenData,
     retryTokenData |-> NoTokenData, first |-> NoResponse, second |-> NoResponse,
     nReq |-> 0, nRefresh |-> 0, nDriver |-> 0, refreshErr |-> FALSE, result |-> NoResult, runs |-> 0,
     atSelect |-> {}, duringRefresh |-> FALSE, req1 |-> NoRequest, req2 |-> NoRequest, driverAt |-> 0,
     reporter |-> newUsageReporter]

ExecStart(present) ==
    /\ \E a \in InitialAccounts :
          /\ meta = [o \in Procs |-> IF o = Pool THEN a ELSE NoAccount]
          /\ rotations = { Triple(kiroCredsFromAuth(a)) }
    /\ lock = "free"
    /\ pc = [p \in Procs |-> IF p = Pool THEN "idle" ELSE IF p \in present THEN "start" ELSE "absent"]
    /\ cl = [p \in Procs |-> CallLocals]
    /\ now = 0
    /\ expiryLog = [o \in Procs |-> << 0, 0 >>]
    /\ StreamIdle
    /\ BuildIdle
    /\ CredIdle
    /\ SvcIdle

\* The manager hands a call its account only while nobody mutates it.
SelectEnabled_NoLock == TRUE

SelectEnabled == lock = "free"

\* Select: the call gets a snapshot of the account, not the account itself.
Select(c, mode) ==
    /\ pc[c] = "start"
    /\ SelectEnabled
    /\ meta' = [meta EXCEPT ![c] = meta[Pool]]
    /\ cl' = [cl EXCEPT ![c].mode = mode, ![c].atSelect = rotations]
    /\ pc' = [pc EXCEPT ![c] = "creds"]
    /\ UNCHANGED << lock, now, rotations, expiryLog, streamVars, buildVars, credVars, svcVars >>

\* Variant: an empty access token with a refresh token at hand is refreshed first.
CallBegin_RefreshFirst(c) ==
    /\ pc[c] = "creds"
    /\ LET tokenData == kiroCredsFromAuth(meta[c])
           l == [cl[c] EXCEPT !.tokenData = tokenData, !.duringRefresh = (lock = "held")]
       IN  IF tokenData.AccessToken = 0
           THEN IF tokenData.RefreshToken # 0
                THEN /\ pc' = [pc EXCEPT ![c] = "refresh"]
                     /\ cl' = [cl EXCEPT ![c] = [l EXCEPT !.nRefresh = @ + 1]]
                ELSE /\ pc' = [pc EXCEPT ![c] = "done"]
                     /\ cl' = [cl EXCEPT ![c] = [l EXCEPT !.result = PlainErr(0)]]
           ELSE /\ pc' = [pc EXCEPT ![c] = "send1"]
                /\ cl' = [cl EXCEPT ![c] = l]
    /\ UNCHANGED << meta, lock, now, rotations, expiryLog, streamVars, buildVars, credVars, svcVars >>

\* Entry of Execute / ExecuteStream: read the credentials, refuse an empty access token.
CallBegin(c) ==
    /\ pc[c] = "creds"
    /\ LET tokenData == kiroCredsFromAuth(meta[c])
           l == [cl[c] EXCEPT !.tokenData = tokenData, !.duringRefresh = (lock = "held")]
       IN  IF tokenData.AccessToken = 0
           THEN /\ pc' = [pc EXCEPT ![c] = "done"]
                /\ cl' = [cl EXCEPT ![c] = [l EXCEPT !.result = PlainErr(0)]]
           ELSE /\ pc' = [pc EXCEPT ![c] = "send1"]
                /\ cl' = [cl EXCEPT ![c] = l]
    /\ UNCHANGED << meta, lock, now, rotations, expiryLog, streamVars, buildVars, credVars, svcVars >>

\* Variant: any error status with a refresh token at hand starts a refresh.
ShouldRefresh_AnyError(status, tokenData) == tokenData.RefreshToken # 0

\* "Handle 403 error: try to refresh token and retry once"
ShouldRefresh(status, tokenData) == status = 403 /\ tokenData.RefreshToken # 0

\* httpClient.Do(httpReq) and the branches on its outcome, up to the call of e.Refresh.
Send1(c, resp) ==
    /\ pc[c] = "send1"
    /\ LET l == [cl[c] EXCEPT !.nReq = @ + 1, !.first = resp,
                               !.req1 = UpstreamRequest(c, cl[c].tokenData, "uuid-1")]
       IN  IF resp.err
           THEN /\ pc' = [pc EXCEPT ![c] = "done"]
                /\ cl' = [cl EXCEPT ![c] = Return(l, PlainErr(1))]
           ELSE IF ~Is2xx(resp.status)
           THEN IF ShouldRefresh(resp.status, l.tokenData)
                THEN /\ pc' = [pc EXCEPT ![c] = "refresh"]
                     /\ cl' = [cl EXCEPT ![c] = [l EXCEPT !.nRefresh = @ + 1]]
                ELSE /\ pc' = [pc EXCEPT ![c] = "done"]
                     /\ cl' = [cl EXCEPT ![c] = Return(l, statusErr(resp.status, 1))]
           ELSE /\ pc' = [pc EXCEPT ![c] = "done"]
                /\ cl' = [cl EXCEPT ![c] = IF resp.decodes THEN ReturnSuccess(l, OkResult(1))
                                            ELSE Return(l, PlainErr(1))]
    /\ UNCHANGED << meta, lock, now, rotations, expiryLog, streamVars, buildVars, credVars, svcVars >>

\* Refresh, first part: read the credentials; nothing to do without a refresh token.
RefreshBegin(p) ==
    /\ pc[p] = "refresh"
    /\ LET tokenData == kiroCredsFromAuth(meta[p])
       IN  /\ cl' = [cl EXCEPT ![p].refTokenData = tokenData, ![p].refreshErr = FALSE]
           /\ pc' = [pc EXCEPT ![p] = IF tokenData.RefreshToken = 0 THEN "refreshed" ELSE "driver"]
    /\ UNCHANGED << meta, lock, now, rotations, expiryLog, streamVars, buildVars, credVars, svcVars >>

\* svc.RefreshTokens: the endpoint answers dt ticks after the clock was last read.
Driver(p, answer, dt) ==
    /\ pc[p] = "driver"
    /\ now' = now + dt
    /\ IF answer.ok
       THEN LET newTokenData == RefreshTokens(cl[p].refTokenData, answer, now', NewToken(p, cl[p].runs))
            IN  /\ rotations' = IF p = Pool
                                THEN { Triple(cl[p].refTokenData), Triple(newTokenData) }
                                ELSE rotations
                /\ cl' = [cl EXCEPT ![p].newTokenData = newTokenData, ![p].nDriver = @ + 1,
                                    ![p].driverAt = now']
                /\ pc' = [pc EXCEPT ![p] = "storeAccess"]
       ELSE /\ cl' = [cl EXCEPT ![p].refreshErr = TRUE, ![p].nDriver = @ + 1]
            /\ pc' = [pc EXCEPT ![p] = "refreshed"]
            /\ UNCHANGED rotations
    /\ UNCHANGED << meta, lock, expiryLog, streamVars, buildVars, credVars, svcVars >>

\* Variant: the new access token is not stored.
StoreAccess_Skip(p) ==
    /\ pc[p] = "storeAccess"
    /\ pc' = [pc EXCEPT ![p] = "storeRefresh"]
    /\ UNCHANGED << meta, cl, lock, now, rotations, expiryLog, streamVars, buildVars, credVars, svcVars >>

\* auth.Metadata["accessToken"] = newTokenData.AccessToken
StoreAccess(p) ==
    /\ pc[p] = "storeAccess"
    /\ meta' = [meta EXCEPT ![p].accessToken = cl[p].newTokenData.AccessToken]
    /\ pc' = [pc EXCEPT ![p] = "storeRefresh"]
    /\ UNCHANGED << cl, lock, now, rotations, expiryLog, streamVars, buildVars, credVars, svcVars >>

\* auth.Metadata["refreshToken"] = newTokenData.RefreshToken
StoreRefresh(p) ==
    /\ pc[p] = "storeRefresh"
    /\ meta' = [meta EXCEPT ![p].refreshToken = cl[p].newTokenData.RefreshToken]
    /\ pc' = [pc EXCEPT ![p] = "storeExpiry"]
    /\ UNCHANGED << cl, lock, now, rotations, expiryLog, streamVars, buildVars, credVars, svcVars >>

\* auth.Metadata["expiresAt"] = newTokenData.ExpiresAt
StoreExpiry(p) ==
    /\ pc[p] = "storeExpiry"
    /\ meta' = [meta EXCEPT ![p].expiresAt = cl[p].newTokenData.ExpiresAt]
    /\ expiryLog' = [expiryLog EXCEPT ![p] = << meta[p].expiresAt, cl[p].newTokenData.ExpiresAt >>]
    /\ pc' = [pc EXCEPT ![p] = "storeRest"]
    /\ UNCHANGED << cl, lock, now, rotations, streamVars, buildVars, credVars, svcVars >>

\* Variant: the region RefreshTokens worked with is stored too.
StoreRest_WithRegion(p) ==
    /\ pc[p] = "storeRest"
    /\ meta' = [meta EXCEPT ![p].profileArn = IF cl[p].newTokenData.ProfileArn # ""
                                                THEN cl[p].newTokenData.ProfileArn ELSE @,
                            ![p].type = "kiro",
                            ![p].region = "us-east-1",
                            ![p].last_refresh = FormatRFC3339(now)]
    /\ pc' = [pc EXCEPT ![p] = "refreshed"]
    /\ UNCHANGED << cl, lock, now, rotations, expiryLog, streamVars, buildVars, credVars, svcVars >>

\* profileArn when the answer carries one, type, last_refresh; Refresh returns auth.
StoreRest(p) ==
    /\ pc[p] = "storeRest"
    /\ meta' = [meta EXCEPT ![p].profileArn = IF cl[p].newTokenData.ProfileArn # ""
                                                THEN cl[p].newTokenData.ProfileArn ELSE @,
                            ![p].type = "kiro",
                            ![p].last_refresh = FormatRFC3339(now)]
    /\ pc' = [pc EXCEPT ![p] = "refreshed"]
    /\ UNCHANGED << cl, lock, now, rotations, expiryLog, streamVars, buildVars, credVars, svcVars >>

\* Variant: the error Refresh returned is not looked at.
AfterRefresh_IgnoreError(c) ==
    /\ pc[c] = "refreshed"
    /\ LET newTokenData == kiroCredsFromAuth(meta[c])
       IN  IF newTokenData.AccessToken # 0
           THEN /\ pc' = [pc EXCEPT ![c] = "send2"]
                /\ cl' = [cl EXCEPT ![c].retryTokenData = newTokenData]
           ELSE /\ pc' = [pc EXCEPT ![c] = "done"]
                /\ cl' = [cl EXCEPT ![c] = Return([cl[c] EXCEPT !.retryTokenData = newTokenData],
                                                   statusErr(cl[c].first.status, 1))]
    /\ UNCHANGED << meta, lock, now, rotations, expiryLog, streamVars, buildVars, credVars, svcVars >>

\* Back in the call: give up on a refresh error, otherwise read the credentials
\* again and retry when they hold an access token.
AfterRefresh(c) ==
    /\ pc[c] = "refreshed"
    /\ LET newTokenData == kiroCredsFromAuth(meta[c])
       IN  IF cl[c].refreshErr
           THEN /\ pc' = [pc EXCEPT ![c] = "done"]
                /\ cl' = [cl EXCEPT ![c] = Return(cl[c], statusErr(cl[c].first.status, 1))]
           ELSE IF newTokenData.AccessToken # 0
           THEN /\ pc' = [pc EXCEPT ![c] = "send2"]
                /\ cl' = [cl EXCEPT ![c].retryTokenData = newTokenData]
           ELSE /\ pc' = [pc EXCEPT ![c] = "done"]
                /\ cl' = [cl EXCEPT ![c] = Return([cl[c] EXCEPT !.retryTokenData = newTokenData],
                                                   statusErr(cl[c].first.status, 1))]
    /\ UNCHANGED << meta, lock, now, rotations, expiryLog, streamVars, buildVars, credVars, svcVars >>

\* What the call returns for the answer to the retried request.
RetryResult_NoSuccess(resp) ==
    IF resp.err THEN PlainErr(2) ELSE statusErr(resp.status, 2)

RetryResult(resp) ==
    IF resp.err THEN PlainErr(2)
    ELSE IF Is2xx(resp.status) THEN (IF resp.decodes THEN OkResult(2) ELSE PlainErr(2))
    ELSE statusErr(resp.status, 2)

\* httpClient.Do(httpReqRetry) and the return of the call.
Send2(c, resp) ==
    /\ pc[c] = "send2"
    /\ pc' = [pc EXCEPT ![c] = "done"]
    /\ cl' = [cl EXCEPT ![c] = Return([cl[c] EXCEPT !.nReq = @ + 1, !.second = resp,
                                                    !.req2 = UpstreamRequest(c, cl[c].retryTokenData, "uuid-2")],
                                       RetryResult(resp))]
    /\ UNCHANGED << meta, lock, now, rotations, expiryLog, streamVars, buildVars, credVars, svcVars >>

\* The manager's refresh loop: it refreshes the account itself, under the account's lock.
LoopAcquire ==
    /\ pc[Pool] = "idle"
    /\ lock = "free"
    /\ cl[Pool].runs < MaxLoopRefreshes
    /\ lock' = "held"
    /\ pc' = [pc EXCEPT ![Pool] = "refresh"]
    /\ cl' = [cl EXCEPT ![Pool].nRefresh = @ + 1]
    /\ UNCHANGED << meta, now, rotations, expiryLog, streamVars, buildVars, credVars, svcVars >>

LoopRelease ==
    /\ pc[Pool] = "refreshed"
    /\ lock' = "free"
    /\ pc' = [pc EXCEPT ![Pool] = "idle"]
    /\ cl' = [cl EXCEPT ![Pool].runs = @ + 1]
    /\ UNCHANGED << meta, now, rotations, expiryLog, streamVars, buildVars, credVars, svcVars >>

\* Two calls on one account, the refresh loop at rest.
InitExec == ExecStart(Calls)

NextExec ==
    \/ \E c \in Calls, mode \in Modes : Select(c, mode)
    \/ \E c \in Calls : CallBegin(c)
    \/ \E c \in Calls, resp \in Responses : Send1(c, resp)
    \/ \E c \in Calls : RefreshBegin(c)
    \/ \E c \in Calls, answer \in RefreshAnswers, dt \in Spacings : Driver(c, answer, dt)
    \/ \E c \in Calls : StoreAccess(c)
    \/ \E c \in Calls : StoreRefresh(c)
    \/ \E c \in Calls : StoreExpiry(c)
    \/ \E c \in Calls : StoreRest(c)
    \/ \E c \in Calls : AfterRefresh(c)
    \/ \E c \in Calls, resp \in Responses : Send2(c, resp)

SpecExec == InitExec /\ [][NextExec]_vars

\* One call and the refresh loop on one account.
Caller == { 1 }

InitAccount == ExecStart(Caller)

NextAccount ==
    \/ \E c \in Caller, mode \in Modes : Select(c, mode)
    \/ \E c \in Caller : CallBegin(c)
    \/ \E c \in Caller, resp \in Responses : Send1(c, resp)
    \/ \E p \in { Pool } \cup Caller : RefreshBegin(p)
    \/ \E p \in { Pool } \cup Caller, answer \in RefreshAnswers, dt \in Spacings : Driver(p, answer, dt)
    \/ \E p \in { Pool } \cup Caller : StoreAccess(p)
    \/ \E p \in { Pool } \cup Caller : StoreRefresh(p)
    \/ \E p \in { Pool } \cup Caller : StoreExpiry(p)
    \/ \E p \in { Pool } \cup Caller : StoreRest(p)
    \/ \E c \in Caller : AfterRefresh(c)
    \/ \E c \in Caller, resp \in Responses : Send2(c, resp)
    \/ LoopAcquire
    \/ LoopRelease

SpecAccount == InitAccount /\ [][NextAccount]_vars

(* ------------------------------------------------------------------ *)
(* Credential files: KiroTokenStorage.SaveTokenToFile,                 *)
(* KiroAuth.SaveTokens, and the loaders of KiroAuth and of             *)
(* KiroAuthenticator.  A key or a string value of a file is one symbol *)
(* of its text; the indentation the encoders add is left out.          *)
(* A token is written as its number, the empty string being token 0.   *)
(* ------------------------------------------------------------------ *)

FAccessToken == << "accessToken" >>
FRefreshToken == << "refreshToken" >>
FAuthMethod == << "authMethod" >>
FExpiresAt == << "expiresAt" >>
FProfileArn == << "profileArn" >>
FType == << "type" >>
FProvider == << "provider" >>
FClientIdHash == << "clientIdHash" >>
FLabel == << "label" >>
FMachineId == << "machineId" >>
FOther == << "foo" >>
FClientId == << "clientId" >>
FClientSecret == << "clientSecret" >>
FRegion == << "region" >>

FileNumbers == 1..9

NumText(n) == IF n = 0 THEN << >> ELSE << ToString(n) >>
NumOf(s) == IF s = << >> THEN 0 ELSE CHOOSE n \in FileNumbers : ToString(n) = s[1]
NameText(p) == IF p = "" THEN << >> ELSE << p >>
NameOf(s) == IF s = << >> THEN "" ELSE s[1]

Member(k, v) == << Q >> \o k \o << Q, ":", Q >> \o v \o << Q >>
Object(members) == << "{" >> \o JoinWith(members, << "," >>) \o << "}" >>

OptMember(k, v) == IF v = << >> THEN << >> ELSE << Member(k, v) >>
BoolMember(k, b) == << Q >> \o k \o << Q, ":" >> \o (IF b THEN LitTrue ELSE LitFalse)

\* json.Unmarshal into a struct: a string field given a boolean is an error,
\* null and absent leave it empty, unknown keys are ignored.
StructErr(u, keys) == ~u.ok \/ \E k \in keys : HasKey(u.obj, k) /\ u.obj[k].t = "bool"

StrField(obj, k) == IF IsString(obj, k) THEN obj[k].s ELSE << >>

TokenDataKeys == { FAccessToken, FRefreshToken, FClientId, FClientSecret, FAuthMethod, FExpiresAt,
                   FProfileArn, FRegion }
StorageKeys == TokenDataKeys \cup { FType }
ExportKeys == { FProvider, FAccessToken, FRefreshToken, FClientIdHash, FClientId, FClientSecret,
                FRegion, FLabel, FMachineId }

LoadErr == [err |-> TRUE, td |-> NoTokenData]
LoadOk(td) == [err |-> FALSE, td |-> td]

FieldsOf(obj) ==
    [AccessToken |-> NumOf(StrField(obj, FAccessToken)),
     RefreshToken |-> NumOf(StrField(obj, FRefreshToken)),
     ExpiresAt |-> NumOf(StrField(obj, FExpiresAt)),
     ProfileArn |-> NameOf(StrField(obj, FProfileArn)),
     ClientID |-> NameOf(StrField(obj, FClientId)),
     ClientSecret |-> NameOf(StrField(obj, FClientSecret)),
     AuthMethod |-> NameOf(StrField(obj, FAuthMethod)),
     Region |-> NameOf(StrField(obj, FRegion))]

\* "Set default region if not specified"
WithDefaultRegion(r) ==
    IF r.err \/ r.td.Region # "" THEN r ELSE [r EXCEPT !.td.Region = defaultRegion]

\* json.Unmarshal(data, &creds) with creds a KiroTokenData / a KiroTokenStorage.
TokenDataOf(u) == IF StructErr(u, TokenDataKeys) THEN LoadErr ELSE LoadOk(FieldsOf(u.obj))
UnmarshalTokenData(data) == TokenDataOf(JsonUnmarshal(data))
StorageOf(u) == IF StructErr(u, StorageKeys) THEN LoadErr ELSE LoadOk(FieldsOf(u.obj))
UnmarshalStorage(data) == StorageOf(JsonUnmarshal(data))

\* "Must have provider and at least one of the kiro-account-manager specific fields"
ExportFormat(u) ==
    /\ u.ok
    /\ HasKey(u.obj, FProvider)
    /\ (HasKey(u.obj, FClientIdHash) \/ HasKey(u.obj, FLabel) \/ HasKey(u.obj, FMachineId))

isKiroAccountManagerFormat(data) == ExportFormat(JsonUnmarshal(data))

SocialProviders == { "Google", "GitHub", "Github" }

ExportOf(u) ==
    IF StructErr(u, ExportKeys) THEN LoadErr
    ELSE LoadOk([AccessToken |-> NumOf(StrField(u.obj, FAccessToken)),
                 RefreshToken |-> NumOf(StrField(u.obj, FRefreshToken)),
                 ExpiresAt |-> 0,
                 ProfileArn |-> "",
                 ClientID |-> NameOf(StrField(u.obj, FClientId)),
                 ClientSecret |-> NameOf(StrField(u.obj, FClientSecret)),
                 AuthMethod |-> IF NameOf(StrField(u.obj, FProvider)) \in SocialProviders
                                THEN AuthMethodSocial ELSE "idc",
                 Region |-> IF StrField(u.obj, FRegion) = << >> THEN defaultRegion
                            ELSE NameOf(StrField(u.obj, FRegion))])

convertFromKiroAccountManager(data) == ExportOf(JsonUnmarshal(data))

\* KiroAuth.loadCredentialsFromFile on the bytes os.ReadFile returned.
loadCredentialsFromFile(data) ==
    IF isKiroAccountManagerFormat(data) THEN convertFromKiroAccountManager(data)
    ELSE WithDefaultRegion(UnmarshalTokenData(data))

\* LoadTokenFromFile on the bytes os.ReadFile returned.
LoadTokenFromFile(data) ==
    IF isKiroAccountManagerFormat(data) THEN convertFromKiroAccountManager(data)
    ELSE UnmarshalStorage(data)

BothEmpty(td) == td.AccessToken = 0 /\ td.RefreshToken = 0

\* Variant: a sibling's non-empty field replaces the one already merged.
MergeCreds_LastWins(merged, creds) ==
    [f \in DOMAIN merged |->
        IF f # "ExpiresAt" /\ creds[f] # NoTokenData[f] THEN creds[f] ELSE merged[f]]

\* "Merge credentials, preserving expiresAt from the main file"
MergeCreds(merged, creds) ==
    [AccessToken |-> IF creds.AccessToken # 0 /\ merged.AccessToken = 0
                     THEN creds.AccessToken ELSE merged.AccessToken,
     RefreshToken |-> IF creds.RefreshToken # 0 /\ merged.RefreshToken = 0
                      THEN creds.RefreshToken ELSE merged.RefreshToken,
     ExpiresAt |-> merged.ExpiresAt,
     ProfileArn |-> IF creds.ProfileArn # "" /\ merged.ProfileArn = ""
                    THEN creds.ProfileArn ELSE merged.ProfileArn,
     ClientID |-> IF creds.ClientID # "" /\ merged.ClientID = ""
                  THEN creds.ClientID ELSE merged.ClientID,
     ClientSecret |-> IF creds.ClientSecret # "" /\ merged.ClientSecret = ""
                      THEN creds.ClientSecret ELSE merged.ClientSecret,
     AuthMethod |-> IF creds.AuthMethod # "" /\ merged.AuthMethod = ""
                    THEN creds.AuthMethod ELSE merged.AuthMethod,
     Region |-> IF creds.Region # "" /\ merged.Region = ""
                THEN creds.Region ELSE merged.Region]

\* "Then read other JSON files in the directory": a file that does not parse is skipped.
MergeOne(merged, r) == IF r.err THEN merged ELSE MergeCreds(merged, r.td)

RECURSIVE MergeOthers(_, _)
MergeOthers(merged, files) ==
    IF files = << >> THEN merged
    ELSE MergeOthers(MergeOne(merged, UnmarshalTokenData(Head(files))), Tail(files))

\* The directory branch once the target file was read: r is its unmarshalling.
DirectoryResult(r, files, readDirErr) ==
    IF readDirErr
    THEN IF r.err \/ BothEmpty(r.td) THEN LoadErr ELSE r
    ELSE IF BothEmpty(MergeOthers(IF r.err THEN NoTokenData ELSE r.td, files)) THEN LoadErr
    ELSE WithDefaultRegion(LoadOk(MergeOthers(IF r.err THEN NoTokenData ELSE r.td, files)))

\* KiroAuth.LoadCredentialsFromDirectory: credPath names the file itself
\* (isFile) or the directory holding it and the other files.
LoadCredentialsFromDirectory(isFile, target, files, readDirErr) ==
    IF isFile THEN loadCredentialsFromFile(target)
    ELSE DirectoryResult(UnmarshalTokenData(target), files, readDirErr)

\* before: expirationTime.Before(thresholdTime), as the clock has it.
IsTokenExpiringSoon(tokenData, before) == tokenData.ExpiresAt # 0 /\ before

\* KiroAuthenticator.LoadFromFile after the load: the check, then the refresh
\* of a token about to expire.  refreshed: RefreshTokens returned new token data.
FileChecked(r, before, answer, n) ==
    IF r.err \/ BothEmpty(r.td) THEN [err |-> TRUE, td |-> NoTokenData, refreshed |-> FALSE]
    ELSE IF IsTokenExpiringSoon(r.td, before) /\ r.td.RefreshToken # 0 /\ answer.ok
    THEN [err |-> FALSE, td |-> RefreshTokens(r.td, answer, now, n), refreshed |-> TRUE]
    ELSE [err |-> FALSE, td |-> r.td, refreshed |-> FALSE]

AuthLoadFromFile(data, before, answer, n) ==
    FileChecked(loadCredentialsFromFile(data), before, answer, n)

\* KiroAuthenticator.Login after the load: the access token check, then the
\* refresh; RefreshTokens refuses an empty refresh token.
LoginChecked(r, before, answer, n) ==
    IF r.err \/ r.td.AccessToken = 0 THEN [err |-> TRUE, td |-> NoTokenData, refreshed |-> FALSE]
    ELSE IF IsTokenExpiringSoon(r.td, before) /\ r.td.RefreshToken # 0 /\ answer.ok
    THEN [err |-> FALSE, td |-> RefreshTokens(r.td, answer, now, n), refreshed |-> TRUE]
    ELSE [err |-> FALSE, td |-> r.td, refreshed |-> FALSE]

AuthLogin(isFile, target, files, readDirErr, before, answer, n) ==
    LoginChecked(LoadCredentialsFromDirectory(isFile, target, files, readDirErr), before, answer, n)

\* json.MarshalIndent of a map: the keys in byte order.
SortedKeys ==
    << FAccessToken, FAuthMethod, FClientId, FClientIdHash, FClientSecret, FExpiresAt, FOther,
       FLabel, FMachineId, FProfileArn, FProvider, FRefreshToken, FRegion, FType >>

JsonValueText(v) ==
    IF v.t = "str" THEN << Q >> \o v.s \o << Q >>
    ELSE IF v.t = "bool" THEN (IF v.b THEN LitTrue ELSE LitFalse)
    ELSE LitNull

MarshalKeys(obj, ks) == Object([i \in 1..Len(ks) |-> << Q >> \o ks[i] \o << Q, ":" >> \o JsonValueText(obj[ks[i]])])

MarshalMap(obj) == MarshalKeys(obj, SelectSeq(SortedKeys, LAMBDA k : k \in DOMAIN obj))

\* SaveTokens: the existing file's members with the token fields replaced.
SaveTokensMap(existing, tokenData) ==
    (IF tokenData.ProfileArn # "" THEN FProfileArn :> JStr(NameText(tokenData.ProfileArn)) ELSE << >>)
    @@ (FAccessToken :> JStr(NumText(tokenData.AccessToken)))
    @@ (FRefreshToken :> JStr(NumText(tokenData.RefreshToken)))
    @@ (FExpiresAt :> JStr(NumText(tokenData.ExpiresAt)))
    @@ (IF existing.ok THEN existing.obj ELSE << >>)

SaveTokensText(existingText, tokenData) == MarshalMap(SaveTokensMap(JsonUnmarshal(existingText), tokenData))

\* SaveTokenToFile: encoder.Encode(ts) with ts.Type = "kiro".
EncodeStorage(tokenData) ==
    Object(<< Member(FAccessToken, NumText(tokenData.AccessToken)),
              Member(FRefreshToken, NumText(tokenData.RefreshToken)) >>
           \o OptMember(FClientId, NameText(tokenData.ClientID))
           \o OptMember(FClientSecret, NameText(tokenData.ClientSecret))
           \o OptMember(FAuthMethod, NameText(tokenData.AuthMethod))
           \o OptMember(FExpiresAt, NumText(tokenData.ExpiresAt))
           \o OptMember(FProfileArn, NameText(tokenData.ProfileArn))
           \o OptMember(FRegion, NameText(tokenData.Region))
           \o << Member(FType, << "kiro" >>) >>)

\* File contents the loaders are given.
DocTokens(a, r, e) ==
    Object(<< Member(FAccessToken, NumText(a)), Member(FRefreshToken, NumText(r)) >>
           \o OptMember(FExpiresAt, NumText(e)))

FileTexts ==
    { DocTokens(1, 1, 0), DocTokens(1, 1, 1), DocTokens(1, 0, 1), DocTokens(0, 1, 1), DocTokens(0, 0, 0),
      Object(<< Member(FOther, << "x" >>) >>),
      Object(<< Member(FProvider, << "Google" >>), Member(FLabel, << "l" >>),
                Member(FAccessToken, NumText(1)), Member(FRefreshToken, NumText(1)) >>),
      Object(<< Member(FProvider, << "BuilderId" >>), Member(FMachineId, << "m" >>) >>),
      Object(<< Member(FProvider, << "Google" >>) >>),
      Object(<< Member(FAccessToken, NumText(1)), Member(FExpiresAt, NumText(1)),
                Member(FClientId, << "c1" >>), Member(FRegion, << "ap" >>) >>),
      Object(<< Member(FAccessToken, NumText(1)), BoolMember(FProfileArn, TRUE) >>),
      << "x" >> }

OtherFiles ==
    { << >>,
      << DocTokens(0, 1, 0) >>,
      << Object(<< Member(FOther, << "x" >>) >>) >>,
      << Object(<< Member(FAuthMethod, << "idc" >>) >>), DocTokens(1, 0, 0) >>,
      << Object(<< Member(FAccessToken, NumText(2)), Member(FExpiresAt, NumText(2)),
                   Member(FClientId, << "c2" >>), Member(FRegion, << "eu" >>),
                   Member(FProfileArn, << "arn2" >>) >>),
         Object(<< Member(FAccessToken, NumText(3)), Member(FClientSecret, << "s3" >>),
                   Member(FRegion, << "us" >>) >>) >> }

SavedTokens == { [NoTokenData EXCEPT !.AccessToken = 2, !.RefreshToken = 2, !.ExpiresAt = 2],
                 [NoTokenData EXCEPT !.AccessToken = 2, !.RefreshToken = 2, !.ExpiresAt = 2,
                                     !.ProfileArn = "arn", !.AuthMethod = AuthMethodSocial] }

LoadAnswers == { RefreshFail, RefreshOk(TRUE, TRUE, 1, ""), RefreshOk(FALSE, FALSE, 1, "") }

(* ------------------------------------------------------------------ *)
(* A Save of the credential file and a reader of the same file         *)
(* ------------------------------------------------------------------ *)

MaxSaves == 1

SaveKinds == { "SaveTokenToFile", "SaveTokens" }

InitSave ==
    /\ disk \in FileTexts
    /\ others = << >>
    /\ saver = IdleSaver
    /\ reader = IdleReader
    /\ loaded = NoLoad
    /\ contents = { disk }
    /\ StreamIdle
    /\ BuildIdle
    /\ ExecIdle
    /\ SvcIdle

\* The save up to the opening of the file: SaveTokens reads the file and
\* merges, SaveTokenToFile has the storage to encode.
SaveBegin(kind, tokenData) ==
    /\ saver.pc = "idle"
    /\ saver.runs < MaxSaves
    /\ saver' = [saver EXCEPT !.pc = "create", !.written = 0,
                              !.data = IF kind = "SaveTokens" THEN SaveTokensText(disk, tokenData)
                                       ELSE EncodeStorage(tokenData)]
    /\ UNCHANGED << disk, others, reader, loaded, contents >>
    /\ UNCHANGED << streamVars, buildVars, execVars, svcVars >>

\* os.Create / the open of os.WriteFile: the file is truncated.
SaveCreate ==
    /\ saver.pc = "create"
    /\ disk' = << >>
    /\ saver' = [saver EXCEPT !.pc = "write"]
    /\ contents' = contents \cup { saver.data }
    /\ UNCHANGED << others, reader, loaded >>
    /\ UNCHANGED << streamVars, buildVars, execVars, svcVars >>

\* The write of the encoded bytes: the rest at once, or its first half.
SaveWrite(k) ==
    /\ saver.pc = "write"
    /\ k \in 1..(Len(saver.data) - saver.written)
    /\ disk' = disk \o SubSeq(saver.data, saver.written + 1, saver.written + k)
    /\ saver' = [saver EXCEPT !.written = @ + k,
                              !.pc = IF saver.written + k = Len(saver.data) THEN "close" ELSE "write"]
    /\ UNCHANGED << others, reader, loaded, contents >>
    /\ UNCHANGED << streamVars, buildVars, execVars, svcVars >>

WriteSizes == { Len(saver.data) - saver.written, (Len(saver.data) - saver.written + 1) \div 2 }

\* f.Close(), return.
SaveClose ==
    /\ saver.pc = "close"
    /\ saver' = [saver EXCEPT !.pc = "idle", !.runs = @ + 1]
    /\ UNCHANGED << disk, others, reader, loaded, contents >>
    /\ UNCHANGED << streamVars, buildVars, execVars, svcVars >>

\* The reader's os.ReadFile.
ReaderRead ==
    /\ reader.pc = "idle"
    /\ reader' = [reader EXCEPT !.pc = "read", !.data = disk]
    /\ UNCHANGED << disk, others, saver, loaded, contents >>
    /\ UNCHANGED << streamVars, buildVars, execVars, svcVars >>

ReaderResult(r) == [reader EXCEPT !.pc = "done", !.err = r.err, !.td = r.td]

\* The rest of LoadTokenFromFile.
ReaderLoad ==
    /\ reader.pc = "read"
    /\ reader' = ReaderResult(LoadTokenFromFile(reader.data))
    /\ UNCHANGED << disk, others, saver, loaded, contents >>
    /\ UNCHANGED << streamVars, buildVars, execVars, svcVars >>

NextSave ==
    \/ \E kind \in SaveKinds, tokenData \in SavedTokens : SaveBegin(kind, tokenData)
    \/ SaveCreate
    \/ \E k \in WriteSizes : SaveWrite(k)
    \/ SaveClose
    \/ ReaderRead
    \/ ReaderLoad

SpecSave == InitSave /\ [][NextSave]_vars

(* ------------------------------------------------------------------ *)
(* Loading credentials: one call of a loader on a file or a directory  *)
(* ------------------------------------------------------------------ *)

InitLoad ==
    /\ disk \in FileTexts
    /\ others \in OtherFiles
    /\ saver = IdleSaver
    /\ reader = IdleReader
    /\ loaded = NoLoad
    /\ contents = { disk }
    /\ StreamIdle
    /\ BuildIdle
    /\ ExecIdle
    /\ SvcIdle

Loaded(by, r) == [by |-> by, data |-> disk, err |-> r.err, td |-> r.td]

LoadToken == NewToken(1, 0)

\* KiroAuthenticator.LoadFromFile(filePath)
CallLoadFromFile(before, answer) ==
    /\ loaded.by = ""
    /\ loaded' = Loaded("LoadFromFile", AuthLoadFromFile(disk, before, answer, LoadToken))
    /\ UNCHANGED << disk, others, saver, reader, contents >>
    /\ UNCHANGED << streamVars, buildVars, execVars, svcVars >>

\* What Login leaves in the target file: SaveTokens after a refresh, which
\* fails on MkdirAll when credPath names a file.
LoginSaved(isFile, r) == IF r.refreshed /\ ~isFile THEN SaveTokensText(disk, r.td) ELSE disk

LoginStep(isFile, r) ==
    /\ loaded' = Loaded("Login", r)
    /\ disk' = LoginSaved(isFile, r)
    /\ contents' = contents \cup { LoginSaved(isFile, r) }

\* KiroAuthenticator.Login with a.CredPath naming the file or its directory.
CallLogin(isFile, readDirErr, before, answer) ==
    /\ loaded.by = ""
    /\ LoginStep(isFile, AuthLogin(isFile, disk, others, readDirErr, before, answer, LoadToken))
    /\ UNCHANGED << others, saver, reader >>
    /\ UNCHANGED << streamVars, buildVars, execVars, svcVars >>

\* KiroAuth.LoadCredentialsFromDirectory(credPath)
CallLoadDirectory(isFile, readDirErr) ==
    /\ loaded.by = ""
    /\ loaded' = Loaded("LoadCredentialsFromDirectory",
                        LoadCredentialsFromDirectory(isFile, disk, others, readDirErr))
    /\ UNCHANGED << disk, others, saver, reader, contents >>
    /\ UNCHANGED << streamVars, buildVars, execVars, svcVars >>

\* KiroAuth.LoadCredentialsFromFile(filePath)
CallLoadFile ==
    /\ loaded.by = ""
    /\ loaded' = Loaded("LoadCredentialsFromFile", loadCredentialsFromFile(disk))
    /\ UNCHANGED << disk, others, saver, reader, contents >>
    /\ UNCHANGED << streamVars, buildVars, execVars, svcVars >>

\* LoadTokenFromFile(authFilePath)
CallLoadToken ==
    /\ loaded.by = ""
    /\ loaded' = Loaded("LoadTokenFromFile", LoadTokenFromFile(disk))
    /\ UNCHANGED << disk, others, saver, reader, contents >>
    /\ UNCHANGED << streamVars, buildVars, execVars, svcVars >>

NextLoad ==
    \/ \E before \in BOOLEAN, answer \in LoadAnswers : CallLoadFromFile(before, answer)
    \/ \E isFile \in BOOLEAN, readDirErr \in BOOLEAN, before \in BOOLEAN, answer \in LoadAnswers :
           CallLogin(isFile, readDirErr, before, answer)
    \/ \E isFile \in BOOLEAN, readDirErr \in BOOLEAN : CallLoadDirectory(isFile, readDirErr)
    \/ CallLoadFile
    \/ CallLoadToken

SpecLoad == InitLoad /\ [][NextLoad]_vars

(* ------------------------------------------------------------------ *)
(* The classification of one extracted record                          *)
(*   jsonStr := remaining[jsonStart : jsonEnd+1], json.Unmarshal, and   *)
(*   the if/else chain over the parsed map                             *)
(* ------------------------------------------------------------------ *)

\* A field the record does not carry.
Absent == [t |-> "absent", s |-> << >>, b |-> FALSE]

OptField(k, v) == IF v = Absent THEN << >> ELSE k :> v

\* The fields of a record, every combination of them: content (a text or the
\* empty string), followupPrompt, name (a string or null), toolUseId, input,
\* stop (true or false).
FieldChoices ==
    { Absent, JStr(<< "a" >>), JStr(<< >>) } \X { Absent, JStr(<< "f" >>) }
        \X { Absent, JStr(<< "n" >>), JNull } \X { Absent, JStr(<< "t" >>) }
        \X { Absent, JStr(<< "x" >>) } \X { Absent, JBool(TRUE), JBool(FALSE) }

RecordOf(c) ==
    OptField(KContent, c[1]) @@ OptField(KFollowup, c[2]) @@ OptField(KName, c[3])
        @@ OptField(KToolUseId, c[4]) @@ OptField(KInput, c[5]) @@ OptField(KStop, c[6])

\* The order the members are written in; toolUseId never comes first.
RecordKeys == << KContent, KFollowup, KName, KInput, KStop, KToolUseId >>

RecordText(obj) == MarshalKeys(obj, SelectSeq(RecordKeys, LAMBDA k : k \in DOMAIN obj))

\* The records the recognizer can extract: they start with one of its patterns.
ExtractedRecords ==
    { obj \in { RecordOf(c) : c \in FieldChoices } : \E p \in Patterns : MatchAt(RecordText(obj), 0, p) }

\* The recognizer has found the record's closing brace: buffer is jsonStr.
InitClassify ==
    /\ upstream \in { << obj >> : obj \in ExtractedRecords }
    /\ buffer = RecordText(upstream[1])
    /\ pending = << >>
    /\ spc = "reading"
    /\ out = << buildClaudeMessageStart, buildClaudeContentBlockStart(0) >>
    /\ chanClosed = FALSE
    /\ lastContent = << >>
    /\ totalContent = << >>
    /\ blockIndex = 0
    /\ currentToolUse = NilToolUse
    /\ toolInput = << >>
    /\ fed = << >>
    /\ usage = newUsageReporter
    /\ delivered = 0
    /\ consumer = "receiving"
    /\ cancelled = FALSE
    /\ BuildIdle
    /\ ExecIdle
    /\ CredIdle
    /\ SvcIdle

\* json.Unmarshal of jsonStr and the if/else chain: the events appended.
ClassifyStep ==
    /\ spc = "reading"
    /\ buffer # << >>
    /\ fed' = fed \o ClassifyRecord(buffer)
    /\ buffer' = << >>
    /\ UNCHANGED << upstream, pending, spc, out, chanClosed, lastContent, totalContent, blockIndex,
                    currentToolUse, toolInput, usage, delivered, consumer, cancelled >>
    /\ UNCHANGED << buildVars, credVars, svcVars, execVars >>

NextClassify == ClassifyStep

SpecClassify == InitClassify /\ [][NextClassify]_vars

(* ================================================================== *)
(* Properties                                                          *)
(* ================================================================== *)

TextDeltas(chunks) == SelectSeq(chunks, LAMBDA c : c.type = "content_block_delta" /\ c.kind = "text_delta")

RECURSIVE JoinText(_)
JoinText(chunks) == IF chunks = << >> THEN << >> ELSE Head(chunks).text \o JoinText(Tail(chunks))

CountType(chunks, type) == Len(SelectSeq(chunks, LAMBDA c : c.type = type))

\* C2: once every byte of the body has been read, the events the read loop was
\* fed (each call on the previous remainder followed by the next read) are the
\* events of one parseKiroStreamBuffer call on the whole body.
C2_ChunkedEqualsWhole ==
    (spc # "start" /\ pending = << >>) => fed = parseKiroStreamBuffer(BodyBytes(upstream)).events

\* C3: at the end of a stream, the text of all text_delta chunks joined equals
\* content[0].text of the response Execute builds from the same body.
C3_StreamSum ==
    spc = "done" => JoinText(TextDeltas(out)) = parseKiroResponse(BodyBytes(upstream)).text

\* The records a step of the read loop consumed, when it consumed whole
\* messages of a body cut in half messages: upstream[from..to].
PiecesRead == 2 * Len(upstream) - Len(pending)
IsRunAt(from, to) ==
    /\ 1 <= from /\ from < to /\ to <= Len(upstream)
    /\ \A i \in from..to : upstream[i].kind = "content" /\ upstream[i].text = upstream[from].text
    /\ upstream[from].text # << >>
    /\ from > 1 => ~(upstream[from - 1].kind = "content" /\ upstream[from - 1].text = upstream[from].text)
    /\ to < Len(upstream) => ~(upstream[to + 1].kind = "content" /\ upstream[to + 1].text = upstream[from].text)

\* No byte of a record is waiting in the buffer (envelope bytes may be).
NoRecordBuffered == \A i \in 1..Len(buffer) : buffer[i] # "{"

\* C4 (records of a run arriving in the same read): a read that starts with no
\* record buffered and returns exactly a maximal run of two or more consecutive
\* text records with identical content adds exactly one text delta.
C4_RunEmitsOneDelta ==
    [][ \A from, to \in 1..Len(upstream) :
          ( /\ spc = "reading" /\ spc' = "reading"
            /\ NoRecordBuffered
            /\ PiecesRead = 2 * (from - 1)
            /\ PiecesRead' = 2 * to
            /\ IsRunAt(from, to) )
          => Len(TextDeltas(out')) = Len(TextDeltas(out)) + 1 ]_vars

\* C5: a stream that ended on EOF starts with message_start and
\* content_block_start(0, text), ends with one message_delta directly followed
\* by one message_stop, and the channel is closed; message_stop is never
\* followed by another chunk, and nothing is sent on a closed channel's behalf
\* after the goroutine has ended.
C5_StreamEnvelope ==
    /\ spc = "done" =>
         /\ Len(out) >= 4
         /\ out[1] = buildClaudeMessageStart
         /\ out[2] = buildClaudeContentBlockStart(0)
         /\ out[Len(out)] = MessageStopEvent
         /\ out[Len(out) - 1].type = "message_delta"
         /\ CountType(out, "message_delta") = 1
         /\ CountType(out, "message_stop") = 1
         /\ chanClosed
    /\ \A i \in 1..Len(out) : out[i].type = "message_stop" => i = Len(out)
    /\ chanClosed => spc \in { "done", "failed" }

C5_Witness ==
    /\ spc = "done"
    /\ Len(upstream) >= 2
    /\ Len(TextDeltas(out)) >= 1
    /\ \E i \in 1..Len(out) : out[i].kind = "tool_use"

UserInputMessage == kiroReq.conversationState.currentMessage.userInputMessage

\* C6: the built request never carries an empty current-message content.
C6_ContentNotEmpty ==
    bpc = "built" => UserInputMessage.content # << >>

C6_Witness ==
    /\ bpc = "built"
    /\ body.messages # << >>
    /\ body.messages[Len(body.messages)] = ClaudeMsg("user", StringContent(<< >>))
    /\ UserInputMessage.content = TextContinue

\* C7: system prompt S and the single user message U: the current message is
\* S, two newlines, U, and the request has no history.
C7_SystemFolded ==
    ( /\ bpc = "built"
      /\ body.system = StringSystem(TextS)
      /\ body.messages = << ClaudeMsg("user", StringContent(TextU)) >> )
    => /\ UserInputMessage.content = TextS \o << NL, NL >> \o TextU
       /\ ~kiroReq.conversationState.hasHistory

Refreshed(c) == cl[c].nDriver = 1 /\ ~cl[c].refreshErr

\* C1: a call whose first answer is 403 and whose refresh succeeded sends
\* exactly two requests and returns the second answer: its content when it is
\* 2xx, its status as the error when it is 403.  No call sends more than two
\* requests or refreshes more than once.
C1_RetryOnce ==
    \A c \in Calls :
        /\ cl[c].nReq <= 2
        /\ cl[c].nRefresh <= 1
        /\ cl[c].nDriver <= 1
        /\ ( /\ pc[c] = "done"
             /\ cl[c].tokenData.RefreshToken # 0
             /\ cl[c].first.status = 403
             /\ Refreshed(c) )
           => /\ cl[c].second = HttpResp(200, TRUE) => (cl[c].nReq = 2 /\ cl[c].result = OkResult(2))
              /\ cl[c].second.status = 403 => (cl[c].nReq = 2 /\ cl[c].result = statusErr(403, 2))

C1_Witness ==
    /\ pc[1] = "done" /\ cl[1].mode = "Execute" /\ Refreshed(1)
    /\ cl[1].first.status = 403 /\ cl[1].second = HttpResp(200, TRUE) /\ cl[1].result = OkResult(2)
    /\ pc[2] = "done" /\ cl[2].mode = "ExecuteStream" /\ Refreshed(2)
    /\ cl[2].first.status = 403 /\ cl[2].second.status = 403 /\ cl[2].result = statusErr(403, 2)

\* Both calls are past their first answer and not yet returned.
BothRetrying == \A c \in Calls : pc[c] \notin { "start", "creds", "send1", "done" }

\* C8: when two concurrent calls on one account both got 403, the refresh
\* driver is invoked at most once.
C8_SingleRefresh ==
    (BothRetrying /\ \A c \in Calls : cl[c].first.status = 403)
    => cl[1].nDriver + cl[2].nDriver <= 1

HasRead(c) == pc[c] \notin { "absent", "start", "creds" }

C10_ExpiryIncreases ==
    \A o \in Procs : expiryLog[o] # << 0, 0 >> => expiryLog[o][2] > expiryLog[o][1]

Is5xx(status) == status >= 500 /\ status < 600

\* C12: a first answer of 429 or 5xx ends the call with a status error of that
\* code and that answer's body, without a refresh and without a second request.
C12_RateLimitAndServerErrors ==
    \A c \in Calls :
        (pc[c] \notin { "absent", "start", "creds", "send1" }
         /\ ~cl[c].first.err
         /\ (cl[c].first.status = 429 \/ Is5xx(cl[c].first.status)))
        => /\ pc[c] = "done"
           /\ cl[c].result = statusErr(cl[c].first.status, 1)
           /\ cl[c].nReq = 1
           /\ cl[c].nRefresh = 0
           /\ cl[c].nDriver = 0

C12_Witness ==
    /\ pc[1] = "done" /\ cl[1].first.status = 429 /\ cl[1].result = statusErr(429, 1)
    /\ cl[1].tokenData.RefreshToken # 0
    /\ pc[2] = "done" /\ cl[2].first.status = 500 /\ cl[2].result = statusErr(500, 1)
    /\ cl[2].tokenData.RefreshToken # 0

Retried(c) == cl[c].second # NoResponse

\* The parts of a built request the translated body determines.
BodyParts(req) ==
    << req.body.conversationState.history, req.body.conversationState.hasHistory,
       req.body.conversationState.currentMessage >>

\* C13: the retried request carries the access token the refresh returned and
\* the same history, current message, tools and model id as the first one;
\* when the call returns, the Auth it was handed holds that token, the new
\* expiresAt and a last_refresh taken when the refresh ran.
C13_RetryCarriesNewToken ==
    \A c \in Calls :
        Retried(c) =>
            /\ cl[c].newTokenData.AccessToken # 0
            /\ cl[c].req2.Authorization = cl[c].newTokenData.AccessToken
            /\ BodyParts(cl[c].req2) = BodyParts(cl[c].req1)
            /\ meta[c].accessToken = cl[c].newTokenData.AccessToken
            /\ meta[c].expiresAt = cl[c].newTokenData.ExpiresAt
            /\ meta[c].last_refresh >= FormatRFC3339(cl[c].driverAt)
            /\ meta[c].last_refresh <= FormatRFC3339(now)
            /\ meta[c].type = "kiro"

C13_Witness ==
    /\ pc[1] = "done" /\ Retried(1)
    /\ cl[1].req1.Authorization = 1
    /\ cl[1].req2.Authorization = NewToken(1, 0)
    /\ cl[1].req2.body.conversationState.hasHistory
    /\ cl[1].req2.body.conversationState.conversationId # cl[1].req1.body.conversationState.conversationId
    /\ meta[1].expiresAt > 0

\* What a finished Execute call should have on its usage reporter.
RecordedOnce(c) ==
    IF cl[c].result.kind = "ok"
    THEN cl[c].reporter.success = 1 /\ cl[c].reporter.failure = 0
    ELSE cl[c].reporter.success = 0 /\ cl[c].reporter.failure = 1

\* C14: an Execute call that returns a response, also one that does so only
\* after 403, refresh and retry, has recorded exactly one success and no
\* failure; one that returns an error has recorded exactly one failure and no
\* success.
C14_OneRecordPerCall ==
    \A c \in Calls :
        (pc[c] = "done" /\ cl[c].mode = "Execute") => RecordedOnce(c)

C11_CancelCloses == cancelled ~> chanClosed

\* The indices of the content_block_start chunks among the first n chunks.
StartsBefore(n) == { out[i].index : i \in { j \in 1..(n - 1) : out[j].type = "content_block_start" } }

\* C20: a content_block_start of a tool_use block carries a block index no
\* earlier content_block_start of the stream carried.
C20_ToolUseAtNewIndex ==
    \A n \in 1..Len(out) :
        (out[n].type = "content_block_start" /\ out[n].kind = "tool_use")
            => out[n].index \notin StartsBefore(n)

\* A request without system prompt whose messages are one user message with a text.
SingleUserText ==
    /\ body.system = NoSystem
    /\ Len(body.messages) = 1
    /\ body.messages[1].role = "user"
    /\ ~body.messages[1].content.isArray
    /\ body.messages[1].content.text # << >>

\* C19: for a request with no system prompt and one user message with text T,
\* the built request has no history, and its current message carries T
\* unchanged, origin AI_EDITOR and the upstream identifier of the requested
\* model: CLAUDE_SONNET_4_5_20250929_V1_0 for claude-sonnet-4-5, the name
\* itself for a model the mapping does not list.
C19_SingleUserMessage ==
    (bpc = "built" /\ SingleUserText) =>
        /\ ~kiroReq.conversationState.hasHistory
        /\ kiroReq.conversationState.history = << >>
        /\ UserInputMessage.content = body.messages[1].content.text
        /\ UserInputMessage.origin = "AI_EDITOR"
        /\ reqModel = "claude-sonnet-4-5" => UserInputMessage.modelId = "CLAUDE_SONNET_4_5_20250929_V1_0"
        /\ reqModel = "amazonq-claude" => UserInputMessage.modelId = "amazonq-claude"

C19_Witness ==
    /\ bpc = "built"
    /\ SingleUserText
    /\ reqModel = "claude-sonnet-4-5"
    /\ UserInputMessage.content = TextU
    /\ UserInputMessage.modelId = "CLAUDE_SONNET_4_5_20250929_V1_0"

\* C16: what a reader's os.ReadFile returned while the file is being saved
\* is a complete text the file was given, the previous or the new one.
C16_ReadsCompleteFile == reader.pc # "idle" => reader.data \in contents

\* C17: a loader that returns without error returns token data in which the
\* access token and the refresh token are not both empty.
C17_NoEmptyCredentials == (loaded.by # "" /\ ~loaded.err) => ~BothEmpty(loaded.td)

\* A JSON object with none of the token fields of the internal schema, or no JSON object at all.
InternalSchema(u) == u.ok /\ (HasKey(u.obj, FAccessToken) \/ HasKey(u.obj, FRefreshToken))
UnknownSchema(u) == ~ExportFormat(u) /\ ~InternalSchema(u)

FileLoaders == { "LoadCredentialsFromFile", "LoadTokenFromFile", "LoadFromFile" }

\* C18: loading a file that is neither a kiro-account-manager export nor of
\* the internal token schema returns an error.
C18_UnknownSchemaFails ==
    (loaded.by \in FileLoaders /\ UnknownSchema(JsonUnmarshal(loaded.data))) => loaded.err

\* The chunk at position i is sent while a block of its index and of the given
\* kind is open: started before it and not stopped since.
OpenBlockAt(i, kind) ==
    \E j \in 1..(i - 1) :
        /\ out[j].type = "content_block_start"
        /\ out[j].index = out[i].index
        /\ out[j].kind = kind
        /\ \A k \in (j + 1)..(i - 1) :
               ~(out[k].type \in { "content_block_start", "content_block_stop" } /\ out[k].index = out[i].index)

\* C21: every content_block_delta is sent at the index of a block that is
\* started and not yet stopped and is of the delta's kind: a text_delta at the
\* open text block, an input_json_delta at an open tool_use block.
C21_DeltaAtOpenBlock ==
    \A i \in 1..Len(out) :
        out[i].type = "content_block_delta" =>
            OpenBlockAt(i, IF out[i].kind = "text_delta" THEN "text" ELSE "tool_use")

\* The content_block_stop chunks that close the block started at position j:
\* those of its index sent before another block is started at that index.
StopsOf(j) ==
    { k \in (j + 1)..Len(out) :
        /\ out[k].type = "content_block_stop"
        /\ out[k].index = out[j].index
        /\ \A m \in (j + 1)..(k - 1) :
               ~(out[m].type = "content_block_start" /\ out[m].index = out[j].index) }

\* C22: when message_delta is sent, every block that was started before it has
\* been stopped exactly once before it, so no block is open.
C22_BlocksClosedAtEnd ==
    \A d \in 1..Len(out) :
        out[d].type = "message_delta" =>
            \A j \in 1..(d - 1) :
                out[j].type = "content_block_start" =>
                    Cardinality(StopsOf(j) \cap 1..(d - 1)) = 1

\* A tool_use content_block_start is among the first n chunks.
ToolUseStarted(n) ==
    \E j \in 1..n : out[j].type = "content_block_start" /\ out[j].kind = "tool_use"

\* C23: the message_delta sent at EOF carries stop_reason tool_use if a
\* tool_use content_block_start was sent before it in the stream, and end_turn
\* if none was.
C23_StopReason ==
    \A d \in 1..Len(out) :
        out[d].type = "message_delta" =>
            out[d].kind = (IF ToolUseStarted(d - 1) THEN "tool_use" ELSE "end_turn")

C23_Witness ==
    /\ spc = "done"
    /\ ToolUseStarted(Len(out))
    /\ blockIndex > 0
    /\ out[Len(out) - 1].type = "message_delta"
    /\ out[Len(out) - 1].kind = "tool_use"
    /\ Len(TextDeltas(out)) >= 1

\* The events of the given type the classification of the record appended.
EventsOfType(type) == SelectSeq(fed, LAMBDA e : e.Type = type)

\* C24: the classification of an extracted record follows every row of the
\* table that applies to its fields.  A content string without followupPrompt
\* yields one text event with that content; name with toolUseId yields one
\* tool-use start with the inline input and stop; input without name yields
\* one tool-input continuation; stop:true without name yields one tool-use stop.
C24_ClassificationTable ==
    (spc = "reading" /\ buffer = << >> /\ Len(upstream) = 1) =>
        LET obj == upstream[1]
        IN /\ (IsString(obj, KContent) /\ ~HasKey(obj, KFollowup)) =>
                  EventsOfType("content")
                      = << kiroStreamEvent("content", obj[KContent].s, NilToolUse, << >>, FALSE) >>
           /\ (IsString(obj, KName) /\ IsString(obj, KToolUseId)) =>
                  EventsOfType("toolUse")
                      = << kiroStreamEvent("toolUse", << >>,
                               kiroToolUse(obj[KName].s, obj[KToolUseId].s, StrField(obj, KInput)),
                               << >>, IsBool(obj, KStop) /\ obj[KStop].b) >>
           /\ (IsString(obj, KInput) /\ ~HasKey(obj, KName)) =>
                  EventsOfType("toolUseInput")
                      = << kiroStreamEvent("toolUseInput", << >>, NilToolUse, obj[KInput].s, FALSE) >>
           /\ (IsBool(obj, KStop) /\ obj[KStop].b /\ ~HasKey(obj, KName)) =>
                  EventsOfType("toolUseStop")
                      = << kiroStreamEvent("toolUseStop", << >>, NilToolUse, << >>, TRUE) >>

\* The i-th upstream record is a tool use whose toolUseId no earlier record carried.
NewToolUseAt(i) ==
    /\ upstream[i].kind = "toolUse"
    /\ \A k \in 1..(i - 1) : ~(upstream[k].kind = "toolUse" /\ upstream[k].id = upstream[i].id)

\* C25: once the stream has ended on EOF, every upstream tool-use record whose
\* toolUseId had not appeared before has its tool_use content_block_start in
\* the stream, carrying its id and name.
C25_EveryToolUseStarted ==
    spc = "done" =>
        \A i \in 1..Len(upstream) :
            NewToolUseAt(i) =>
                \E j \in 1..Len(out) :
                    /\ out[j].type = "content_block_start"
                    /\ out[j].kind = "tool_use"
                    /\ out[j].id = upstream[i].id
                    /\ out[j].name = upstream[i].name

\* The i-th upstream record is a text record that the record right before it
\* does not repeat: the stream has to carry it.
FreshTextAt(i) ==
    /\ upstream[i].kind = "content"
    /\ upstream[i].text # << >>
    /\ i > 1 => ~(upstream[i - 1].kind = "content" /\ upstream[i - 1].text = upstream[i].text)

RECURSIVE FreshTexts(_)
FreshTexts(n) ==
    IF n = 0 THEN << >>
    ELSE FreshTexts(n - 1) \o (IF FreshTextAt(n) THEN << upstream[n].text >> ELSE << >>)

RECURSIVE TextsOf(_)
TextsOf(chunks) == IF chunks = << >> THEN << >> ELSE << Head(chunks).text >> \o TextsOf(Tail(chunks))

\* C26: once the stream has ended on EOF, its text deltas are the upstream
\* text records in order, without those that repeat the text record right
\* before them: a text is sent again when another record came in between.
C26_DedupAdjacentOnly ==
    spc = "done" => TextsOf(TextDeltas(out)) = FreshTexts(Len(upstream))

\* The response Execute builds from the body the stream was read from.
NonStreamResponse == parseKiroResponse(BodyBytes(upstream))

\* C27: when the stream of a body ended with stop_reason tool_use, the response
\* Execute builds from the same body has stop_reason tool_use, and for every
\* tool_use block the stream started its content holds a tool_use block with
\* that id and name.
C27_ExecuteAgreesOnToolUse ==
    (spc = "done" /\ out[Len(out) - 1].kind = "tool_use") =>
        /\ NonStreamResponse.stop_reason = "tool_use"
        /\ \A j \in 1..Len(out) :
               (out[j].type = "content_block_start" /\ out[j].kind = "tool_use") =>
                   \E b \in 1..Len(NonStreamResponse.content) :
                       /\ NonStreamResponse.content[b].type = "tool_use"
                       /\ NonStreamResponse.content[b].id = out[j].id
                       /\ NonStreamResponse.content[b].name = out[j].name

\* The merged message list of the request under construction, its system
\* prompt, and the history of the built request.
Merged == MergeAdjacent(DropTrailingBrace(MapSeq(body.messages, ProcessMessage)))
SystemPrompt == ExtractSystemPrompt(body.system)
History == kiroReq.conversationState.history

\* The system prompt has a history entry of its own: it is not folded into a
\* first user message.
SystemAlone == SystemPrompt # << >> /\ ~(Len(Merged) > 0 /\ Merged[1].Role = "user")

\* The history entries that stand for messages.
MessageHistory == IF SystemAlone /\ Len(History) > 0 THEN Tail(History) ELSE History

\* A history entry is the turn of the given merged message; the first user
\* message may carry the system prompt in front of its text.
Carries(entry, msg, first) ==
    /\ entry.kind = (IF msg.Role = "user" THEN "userInputMessage" ELSE "assistantResponseMessage")
    /\ \/ entry.content = msg.Content
       \/ first /\ msg.Role = "user" /\ entry.content = SystemPrompt \o << NL, NL >> \o msg.Content
    /\ entry.toolUses = msg.ToolUses

\* C28: in the built request the merged messages before the final one are the
\* history, one entry each and in order; a final user message is the current
\* message and is not in history, a final assistant message is the last
\* history entry and the current message is the synthesized "Continue".
C28_HistoryAndCurrent ==
    (bpc = "built" /\ Len(Merged) > 0) =>
        LET n == Len(Merged)
            lastIsAssistant == Merged[n].Role = "assistant"
        IN /\ Len(MessageHistory) = (IF lastIsAssistant THEN n ELSE n - 1)
           /\ \A i \in 1..Len(MessageHistory) :
                  i <= n => Carries(MessageHistory[i], Merged[i], i = 1)
           /\ lastIsAssistant => UserInputMessage.content = TextContinue
           /\ (~lastIsAssistant /\ Merged[n].Content # << >>) =>
                  UserInputMessage.content = Merged[n].Content

\* The turns of the built request: history, then the current user message.
Turns == [i \in 1..(Len(History) + 1) |->
             IF i <= Len(History) THEN History[i].kind ELSE "userInputMessage"]

\* C29: in the built request no two consecutive turns of history followed by
\* the current message are both user turns or both assistant turns.
C29_TurnsAlternate ==
    bpc = "built" => \A i \in 1..(Len(Turns) - 1) : Turns[i] # Turns[i + 1]

\* The refresh a call started has failed: Refresh has returned an error.
RefreshFailed(c) == cl[c].refreshErr /\ pc[c] \in { "refreshed", "done" }

\* C30: when the refresh driver fails, Refresh returns an error and the
\* metadata of the call's account is what it was before the refresh; the call
\* then returns the status and body of the first answer, the 403, and has sent
\* one upstream request only.
C30_RefreshFailure ==
    \A c \in Calls :
        /\ (pc[c] \in { "refreshed", "done" } /\ cl[c].nDriver = 1 /\ cl[c].newTokenData = NoTokenData)
               => cl[c].refreshErr
        /\ RefreshFailed(c) =>
               /\ meta[c] = meta[Pool]
               /\ kiroCredsFromAuth(meta[c]) = cl[c].tokenData
               /\ pc[c] = "done" =>
                      /\ cl[c].result = statusErr(403, 1)
                      /\ cl[c].first.status = 403
                      /\ cl[c].nReq = 1
                      /\ cl[c].second = NoResponse
                      /\ cl[c].req2 = NoRequest

C30_Witness ==
    \E c \in Calls :
        /\ pc[c] = "done"
        /\ cl[c].mode = "ExecuteStream"
        /\ cl[c].refreshErr
        /\ cl[c].nDriver = 1
        /\ cl[c].result = statusErr(403, 1)

\* The metadata keys Refresh may write.
RefreshWrites == { "accessToken", "refreshToken", "expiresAt", "profileArn", "type", "last_refresh" }

\* Call c is inside Refresh, between reading the credentials and returning.
InRefresh(c) == pc[c] \in { "driver", "storeAccess", "storeRefresh", "storeExpiry", "storeRest" }

\* C31: no step of a Refresh changes a metadata key other than accessToken,
\* refreshToken, expiresAt, profileArn, type and last_refresh; profileArn
\* changes only to the value the refresh response returned; the token data
\* handed to the driver stays as it was read.
C31_RefreshFrame ==
    [][ \A c \in Calls :
          InRefresh(c) =>
              /\ \A k \in DOMAIN meta[c] : k \notin RefreshWrites => meta'[c][k] = meta[c][k]
              /\ meta'[c].profileArn # meta[c].profileArn =>
                     /\ meta'[c].profileArn = cl[c].newTokenData.ProfileArn
                     /\ cl[c].newTokenData.ProfileArn # cl[c].refTokenData.ProfileArn
              /\ cl'[c].refTokenData = cl[c].refTokenData ]_vars

C31_Witness ==
    \E c \in Calls :
        /\ pc[c] = "refreshed"
        /\ ~cl[c].refreshErr
        /\ cl[c].nDriver = 1
        /\ meta[c].accessToken # meta[Pool].accessToken
        /\ meta[c].profileArn = "arn2"
        /\ meta[c].type = "kiro"
        /\ meta[c].clientId = "cid"


\* Call c has returned from a Refresh whose driver call succeeded.
RefreshSucceeded(c) ==
    /\ pc[c] \in { "refreshed", "send2", "done" }
    /\ cl[c].nDriver = 1
    /\ ~cl[c].refreshErr

\* C32: after a successful refresh of an account that held a refresh token,
\* the account's accessToken and refreshToken are both non-empty.
C32_TokensSurviveRefresh ==
    \A c \in Calls :
        (RefreshSucceeded(c) /\ cl[c].refTokenData.RefreshToken # 0) =>
            /\ meta[c].accessToken # 0
            /\ meta[c].refreshToken # 0


\* Call c has passed the entry of Execute / ExecuteStream.
Entered(c) == pc[c] \notin { "idle", "start", "creds" }

\* C33: a call on an account whose access token is empty ends with an error,
\* having sent no upstream request and started no refresh, whether or not the
\* account holds a refresh token.
C33_EmptyAccessToken ==
    \A c \in Calls :
        (Entered(c) /\ cl[c].tokenData.AccessToken = 0) =>
            /\ pc[c] = "done"
            /\ cl[c].result = PlainErr(0)
            /\ cl[c].nReq = 0
            /\ cl[c].nRefresh = 0
            /\ cl[c].nDriver = 0

C33_Witness ==
    \E c \in Calls :
        /\ pc[c] = "done"
        /\ cl[c].tokenData.AccessToken = 0
        /\ cl[c].tokenData.RefreshToken # 0
        /\ cl[c].result = PlainErr(0)


(* ------------------------------------------------------------------ *)
(* The request RefreshTokens sends                                     *)
(* A URL is the sequence of the parts of its template; a body is the   *)
(* sequence of the members json.Marshal writes.                        *)
(* ------------------------------------------------------------------ *)

RefreshURL == << "https://prod.", "{{region}}", ".auth.desktop.kiro.dev/refreshToken" >>
RefreshIDCURL == << "https://oidc.", "{{region}}", ".amazonaws.com/token" >>

\* strings.ReplaceAll on a template whose parts are the text around the placeholder.
ReplaceAll(s, old, new) == [i \in DOMAIN s |-> IF s[i] = old THEN new ELSE s[i]]

\* Variant: the client fields are filled in for every auth method.
RefreshBody_AllFields(tokenData) ==
    [RefreshToken |-> tokenData.RefreshToken,
     ClientID |-> tokenData.ClientID,
     ClientSecret |-> tokenData.ClientSecret,
     GrantType |-> "refresh_token"]

\* reqBody: the refreshTokenRequest built from the token data.
RefreshBody(tokenData) ==
    [RefreshToken |-> tokenData.RefreshToken,
     ClientID |-> IF tokenData.AuthMethod # AuthMethodSocial THEN tokenData.ClientID ELSE "",
     ClientSecret |-> IF tokenData.AuthMethod # AuthMethodSocial THEN tokenData.ClientSecret ELSE "",
     GrantType |-> IF tokenData.AuthMethod # AuthMethodSocial THEN "refresh_token" ELSE ""]

\* json.Marshal(reqBody): refreshToken always, the omitempty members when set.
MarshalRefreshBody(reqBody) ==
    << << "refreshToken", reqBody.RefreshToken >> >>
    \o (IF reqBody.ClientID # "" THEN << << "clientId", reqBody.ClientID >> >> ELSE << >>)
    \o (IF reqBody.ClientSecret # "" THEN << << "clientSecret", reqBody.ClientSecret >> >> ELSE << >>)
    \o (IF reqBody.GrantType # "" THEN << << "grantType", reqBody.GrantType >> >> ELSE << >>)

RefreshRegion(tokenData) == IF tokenData.Region = "" THEN defaultRegion ELSE tokenData.Region

refreshURL(tokenData) ==
    IF tokenData.AuthMethod = AuthMethodSocial
    THEN ReplaceAll(RefreshURL, "{{region}}", RefreshRegion(tokenData))
    ELSE ReplaceAll(RefreshIDCURL, "{{region}}", RefreshRegion(tokenData))

RefreshCallers ==
    { [NoTokenData EXCEPT !.AccessToken = 1, !.RefreshToken = r, !.ClientID = c, !.ClientSecret = s,
                          !.AuthMethod = m, !.Region = g] :
        r \in { 0, 1 }, c \in { "", "cid" }, s \in { "", "secret" },
        m \in { AuthMethodSocial, "idc", "", "Social" }, g \in { "", "eu-west-1" } }

InitRefreshCall ==
    /\ refreshCall \in { [IdleRefreshCall EXCEPT !.pc = "ready", !.tokenData = td] : td \in RefreshCallers }
    /\ authStore = IdleStore
    /\ quota = IdleQuota
    /\ StreamIdle
    /\ BuildIdle
    /\ ExecIdle
    /\ CredIdle

\* RefreshTokens up to httpClient.Do(req): an empty refresh token is refused.
SendRefresh ==
    /\ refreshCall.pc = "ready"
    /\ refreshCall' =
           IF refreshCall.tokenData.RefreshToken = 0
           THEN [refreshCall EXCEPT !.pc = "failed"]
           ELSE [refreshCall EXCEPT !.pc = "sent",
                                    !.url = refreshURL(refreshCall.tokenData),
                                    !.body = MarshalRefreshBody(RefreshBody(refreshCall.tokenData))]
    /\ UNCHANGED << authStore, quota, streamVars, buildVars, execVars, credVars >>

NextRefreshCall == SendRefresh

SpecRefreshCall == InitRefreshCall /\ [][NextRefreshCall]_vars

\* The value of member k of a marshalled body, "" when it has no such member.
BodyMember(b, k) == IF \E i \in DOMAIN b : b[i][1] = k
                    THEN (CHOOSE m \in { b[i] : i \in DOMAIN b } : m[1] = k)[2] ELSE ""

BodyKeys(b) == { b[i][1] : i \in DOMAIN b }

\* C34: a social account's refresh goes to the desktop endpoint with the
\* refresh token alone in the body; any other auth method (the empty one
\* included) goes to the OIDC token endpoint with clientId, clientSecret and
\* grant type refresh_token; the URL carries the account's region, us-east-1
\* when the account has none.
C34_RefreshRequest ==
    refreshCall.pc = "sent" =>
        LET td == refreshCall.tokenData
            region == IF td.Region = "" THEN "us-east-1" ELSE td.Region
        IN  /\ BodyMember(refreshCall.body, "refreshToken") = td.RefreshToken
            /\ td.AuthMethod = "social" =>
                   /\ refreshCall.url = << "https://prod.", region, ".auth.desktop.kiro.dev/refreshToken" >>
                   /\ BodyKeys(refreshCall.body) = { "refreshToken" }
            /\ td.AuthMethod # "social" =>
                   /\ refreshCall.url = << "https://oidc.", region, ".amazonaws.com/token" >>
                   /\ BodyMember(refreshCall.body, "clientId") = td.ClientID
                   /\ BodyMember(refreshCall.body, "clientSecret") = td.ClientSecret
                   /\ BodyMember(refreshCall.body, "grantType") = "refresh_token"

C34_Witness ==
    /\ refreshCall.pc = "sent"
    /\ refreshCall.tokenData.AuthMethod = ""
    /\ refreshCall.tokenData.Region = ""
    /\ refreshCall.tokenData.ClientID = "cid"
    /\ Len(refreshCall.body) = 4


\* The fields of the token data a directory load merges, and the empty value of each.
MergedFields == { "AccessToken", "RefreshToken", "ClientID", "ClientSecret", "AuthMethod",
                  "ProfileArn", "Region" }

EmptyField(f) == NoTokenData[f]

\* What the JSON text of a file sets each field to: its string members, read one by one.
SetByFile(data) ==
    IF JsonUnmarshal(data).ok THEN FieldsOf(JsonUnmarshal(data).obj) ELSE NoTokenData

\* The values the sibling files that unmarshal hold for field f, in directory order.
RECURSIVE SiblingValues(_, _)
SiblingValues(files, f) ==
    IF files = << >> THEN << >>
    ELSE (IF ~UnmarshalTokenData(Head(files)).err /\ UnmarshalTokenData(Head(files)).td[f] # EmptyField(f)
          THEN << UnmarshalTokenData(Head(files)).td[f] >> ELSE << >>)
         \o SiblingValues(Tail(files), f)

\* A directory load that returned token data keeps what the primary file set.
KeepsPrimary(prim, td) ==
    /\ \A f \in MergedFields : prim[f] # EmptyField(f) => td[f] = prim[f]
    /\ td.ExpiresAt = prim.ExpiresAt

\* A field the result did not take from the primary file comes from the first
\* sibling that sets it, or is the default region.
SiblingOnlyWhileEmpty(prim, files, td) ==
    \A f \in MergedFields :
        td[f] # prim[f] =>
            /\ prim[f] = EmptyField(f)
            /\ \/ SiblingValues(files, f) # << >> /\ td[f] = Head(SiblingValues(files, f))
               \/ f = "Region" /\ SiblingValues(files, f) = << >> /\ td[f] = defaultRegion

AuthIdentifier(tokenData) ==
    IF tokenData.Region # "" THEN << "kiro-", tokenData.Region >> ELSE << "kiro" >>

AuthFileName(tokenData) == AuthIdentifier(tokenData) \o << ".json" >>

\* The metadata map; a key the code leaves out is held as the empty string.
AuthMetadata(tokenData) ==
    [accessToken |-> tokenData.AccessToken, refreshToken |-> tokenData.RefreshToken,
     expiresAt |-> tokenData.ExpiresAt, region |-> tokenData.Region,
     authMethod |-> tokenData.AuthMethod, type |-> "kiro",
     profileArn |-> tokenData.ProfileArn, clientId |-> tokenData.ClientID,
     clientSecret |-> tokenData.ClientSecret]

\* The coreauth.Auth that Login and LoadFromFile return.
AuthOf(tokenData) ==
    [ID |-> AuthFileName(tokenData), Provider |-> "kiro", FileName |-> AuthFileName(tokenData),
     Metadata |-> AuthMetadata(tokenData)]

\* The pool keyed by file name: an account registered under a name replaces
\* the one the pool held under that name.
Registered(pool, auth) == { a \in pool : a.FileName # auth.FileName } \cup { auth }

DocRegion(a, g) ==
    Object(<< Member(FAccessToken, NumText(a)), Member(FRefreshToken, NumText(a)) >>
           \o OptMember(FRegion, NameText(g)))

RegionFiles == { DocRegion(a, g) : a \in { 1, 2 }, g \in { "", "eu", "ap" } }

InitRegister ==
    /\ authStore \in { [IdleStore EXCEPT !.files = f] :
                         f \in { g \in RegionFiles \X RegionFiles : g[1] # g[2] } }
    /\ refreshCall = IdleRefreshCall
    /\ quota = IdleQuota
    /\ StreamIdle
    /\ BuildIdle
    /\ ExecIdle
    /\ CredIdle

\* The next credential file to load.
NextFile == Len(authStore.auths) + 1

\* The caller registers the account a load returned.
RegisterAuth(r, text) ==
    /\ ~r.err
    /\ authStore' = [authStore EXCEPT !.files[NextFile] = text,
                                      !.auths = Append(@, AuthOf(r.td)),
                                      !.pool = Registered(@, AuthOf(r.td))]
    /\ UNCHANGED << refreshCall, quota, streamVars, buildVars, execVars, credVars >>

\* KiroAuthenticator.LoadFromFile on the next file, and the registration of its account.
RegisterFromFile(before, answer) ==
    /\ NextFile <= Len(authStore.files)
    /\ RegisterAuth(AuthLoadFromFile(authStore.files[NextFile], before, answer, LoadToken),
                    authStore.files[NextFile])

\* KiroAuthenticator.Login with CredPath naming the next file or a directory
\* holding it alone, and the registration of its account.
RegisterLogin(isFile, readDirErr, before, answer) ==
    /\ NextFile <= Len(authStore.files)
    /\ LET data == authStore.files[NextFile]
           r == AuthLogin(isFile, data, << >>, readDirErr, before, answer, LoadToken)
       IN  RegisterAuth(r, IF r.refreshed /\ ~isFile THEN SaveTokensText(data, r.td) ELSE data)

NextRegister ==
    \/ \E before \in BOOLEAN, answer \in LoadAnswers : RegisterFromFile(before, answer)
    \/ \E isFile \in BOOLEAN, readDirErr \in BOOLEAN, before \in BOOLEAN, answer \in LoadAnswers :
           RegisterLogin(isFile, readDirErr, before, answer)

SpecRegister == InitRegister /\ [][NextRegister]_vars

\* C36: the accounts of two different credential files have different
\* identifiers, and both are in the pool after the second is registered.
C36_DistinctIdentifiers ==
    Len(authStore.auths) = 2 =>
        /\ authStore.auths[1].ID # authStore.auths[2].ID
        /\ Cardinality(authStore.pool) = 2


\* The results of the first n entries of a list that repeat no earlier toolUseId.
RECURSIVE FirstResults(_, _)
FirstResults(results, n) ==
    IF n = 0 THEN << >>
    ELSE FirstResults(results, n - 1)
         \o (IF \E j \in 1..(n - 1) : results[j].toolUseId = results[n].toolUseId
             THEN << >> ELSE << results[n] >>)

DistinctIds(results) ==
    \A i, j \in 1..Len(results) : i # j => results[i].toolUseId # results[j].toolUseId

\* Every toolResults list of the built request: the current message's and the history entries'.
RequestToolResults ==
    { UserInputMessage.toolResults } \cup { History[i].toolResults : i \in 1..Len(History) }

\* C37: on the tool results of every merged message dedupeToolResults gives
\* the first result of each toolUseId in the original order, and gives the
\* same list when applied again; every toolResults list of the built request
\* has pairwise distinct toolUseIds.
C37_DedupeToolResults ==
    bpc = "built" =>
        /\ \A i \in 1..Len(Merged) :
               /\ dedupeToolResults(Merged[i].ToolResults)
                      = FirstResults(Merged[i].ToolResults, Len(Merged[i].ToolResults))
               /\ dedupeToolResults(dedupeToolResults(Merged[i].ToolResults))
                      = dedupeToolResults(Merged[i].ToolResults)
        /\ \A results \in RequestToolResults : DistinctIds(results)

C37_Witness ==
    /\ bpc = "built"
    /\ Len(Merged) = 3
    /\ Len(Merged[1].ToolResults) = 3
    /\ Len(History) = 2
    /\ Len(History[1].toolResults) = 2
    /\ Len(Merged[3].ToolResults) = 3
    /\ Len(UserInputMessage.toolResults) = 2
    /\ UserInputMessage.toolResults[2].toolUseId = "r2"


\* The modelId of every userInputMessage of the built request.
UserModelIds ==
    { UserInputMessage.modelId }
    \cup { History[i].modelId : i \in { j \in 1..Len(History) : History[j].kind = "userInputMessage" } }

\* C38: every userInputMessage of the built request, in history and as the
\* current message, carries one modelId: the table's image of the requested
\* model when the table has it, the requested model itself otherwise.
C38_OneModelId ==
    bpc = "built" =>
        UserModelIds = { IF reqModel \in DOMAIN kiroModelMapping
                         THEN kiroModelMapping[reqModel] ELSE reqModel }

C38_Witness ==
    /\ bpc = "built"
    /\ reqModel = "claude-sonnet-4-5"
    /\ Len(History) = 2
    /\ History[1].kind = "userInputMessage"
    /\ History[2].kind = "assistantResponseMessage"
    /\ UserModelIds = { "CLAUDE_SONNET_4_5_20250929_V1_0" }


(* ------------------------------------------------------------------ *)
(* GetAntigravityQuotas and getQuotasWithRetry                         *)
(* ------------------------------------------------------------------ *)

quotaRetryAttempts == 3
quotaRetryDelay == 500    \* milliseconds

MaxAuths == 2

QuotaAuth(provider, disabled, fileName) ==
    [Provider |-> provider, Disabled |-> disabled, FileName |-> fileName, ID |-> "id"]

AuthUniverse ==
    { QuotaAuth("antigravity", FALSE, "a.json"), QuotaAuth("antigravity", FALSE, ""),
      QuotaAuth("antigravity", TRUE, "d.json"), QuotaAuth("kiro", FALSE, "k.json") }

\* What exec.GetQuotas may return.
QuotaOk(quotas) == [ok |-> TRUE, quotas |-> quotas, err |-> ""]
QuotaErr(err) == [ok |-> FALSE, quotas |-> "", err |-> err]
QuotaAnswers == { QuotaOk("q1"), QuotaErr("e1"), QuotaErr("e2") }

CallEvent(answer) == [ev |-> "call", ok |-> answer.ok, quotas |-> answer.quotas, err |-> answer.err, ms |-> 0]
SleepEvent(ms) == [ev |-> "sleep", ok |-> FALSE, quotas |-> "", err |-> "", ms |-> ms]

\* "Skip disabled or unavailable auths", and the auths of other providers.
Skipped(auth) == auth.Provider # "antigravity" \/ auth.Disabled

\* "Store quotas with auth file name as key"
ResultKey(auth) == IF auth.FileName = "" THEN auth.ID ELSE auth.FileName

Stored(result, key, value) == { e \in result : e.key # key } \cup { [key |-> key, value |-> value] }

\* Variant: the delay follows every failed attempt.
ShouldWait_Always(attempt, maxAttempts) == TRUE

\* "Don't wait after the last attempt"
ShouldWait(attempt, maxAttempts) == attempt < maxAttempts

InitQuota ==
    /\ quota \in { [IdleQuota EXCEPT !.pc = "next", !.auths = a] : a \in SeqsFrom0(AuthUniverse, MaxAuths) }
    /\ refreshCall = IdleRefreshCall
    /\ authStore = IdleStore
    /\ StreamIdle
    /\ BuildIdle
    /\ ExecIdle
    /\ CredIdle

QuotaFrame == UNCHANGED << refreshCall, authStore, streamVars, buildVars, execVars, credVars >>

\* The handler's loop over the auths: the next one is skipped or queried;
\* after the last one the response is written.
QuotaNext ==
    /\ quota.pc = "next"
    /\ quota' =
           IF quota.i = Len(quota.auths) THEN [quota EXCEPT !.pc = "done"]
           ELSE IF Skipped(quota.auths[quota.i + 1]) THEN [quota EXCEPT !.i = @ + 1]
           ELSE [quota EXCEPT !.i = @ + 1, !.pc = "call", !.attempt = 1, !.lastErr = "",
                              !.log = << >>, !.ret = NoReturn]
    /\ QuotaFrame

\* getQuotasWithRetry returns to the handler, which stores the quotas or the error.
Returned(q, quotas, err) ==
    [q EXCEPT !.pc = "next",
              !.ret = [set |-> TRUE, quotas |-> quotas, err |-> err],
              !.result = Stored(@, ResultKey(q.auths[q.i]),
                                IF err = "" THEN quotas ELSE "failed")]

\* attempt++ and the loop condition.
NextAttempt(q, maxAttempts) ==
    IF q.attempt + 1 <= maxAttempts
    THEN [q EXCEPT !.attempt = @ + 1, !.pc = "call"]
    ELSE Returned([q EXCEPT !.attempt = @ + 1], "", q.lastErr)

\* One attempt: exec.GetQuotas answers.
QuotaCall(answer) ==
    /\ quota.pc = "call"
    /\ LET q == [quota EXCEPT !.log = Append(@, CallEvent(answer))]
       IN  quota' =
               IF answer.ok THEN Returned(q, answer.quotas, "")
               ELSE IF ShouldWait(q.attempt, quotaRetryAttempts)
               THEN [q EXCEPT !.lastErr = answer.err, !.pc = "sleep"]
               ELSE NextAttempt([q EXCEPT !.lastErr = answer.err], quotaRetryAttempts)
    /\ QuotaFrame

\* time.Sleep(quotaRetryDelay), then the next turn of the loop.
QuotaSleep ==
    /\ quota.pc = "sleep"
    /\ quota' = NextAttempt([quota EXCEPT !.log = Append(@, SleepEvent(quotaRetryDelay))], quotaRetryAttempts)
    /\ QuotaFrame

NextQuota ==
    \/ QuotaNext
    \/ \E answer \in QuotaAnswers : QuotaCall(answer)
    \/ QuotaSleep

\* The handler's goroutine keeps running, and every GetQuotas call returns.
SpecQuota == InitQuota /\ [][NextQuota]_vars /\ WF_vars(NextQuota)

CallsOf(log) == SelectSeq(log, LAMBDA e : e.ev = "call")

\* The events of a finished getQuotasWithRetry and what it returned.
RetryOutcome(log, ret) ==
    /\ Len(log) >= 1
    /\ \A k \in 1..Len(log) : log[k].ev = (IF k % 2 = 1 THEN "call" ELSE "sleep")
    /\ log[Len(log)].ev = "call"
    /\ \A k \in 1..Len(log) : log[k].ev = "sleep" => log[k].ms = 500
    /\ \A k \in 1..(Len(log) - 1) : ~log[k].ok
    /\ IF log[Len(log)].ok
       THEN ret.err = "" /\ ret.quotas = log[Len(log)].quotas
       ELSE /\ Len(CallsOf(log)) = 3
            /\ ret.quotas = ""
            /\ ret.err = log[Len(log)].err

\* C39: getQuotasWithRetry calls the quota endpoint at most three times,
\* returns the first success, sleeps 500 ms between two attempts and never
\* after the last, returns the last attempt's error when all fail, and the
\* handler always comes to its end.
C39_QuotaRetry ==
    /\ [](Len(CallsOf(quota.log)) <= 3)
    /\ [](quota.ret.set => RetryOutcome(quota.log, quota.ret))
    /\ <>(quota.pc = "done")

C39_Witness ==
    /\ quota.ret.set
    /\ Len(quota.log) = 5
    /\ quota.log[1].err = "e1"
    /\ quota.log[5].err = "e2"
    /\ quota.ret.err = "e2"
    /\ quota.attempt = 4


\* A step that closes the channel is the return of a goroutine that has left
\* its read loop with every send through; a closed channel stays closed and
\* takes no further chunk.
ClosedOnce ==
    /\ (~chanClosed /\ chanClosed') => (spc \in { "done", "failed" } /\ SendsDone /\ out' = out)
    /\ chanClosed => (chanClosed' /\ out' = out)

\* C40: with a consumer that keeps receiving, the goroutine comes to its
\* return and closes the channel, after the end of the body as after a read
\* error; the channel is closed once and no chunk is sent after the close.
C40_ClosesOnce ==
    /\ [][ClosedOnce]_vars
    /\ (<>(consumer = "stopped") \/ <>chanClosed)
    /\ [](chanClosed => spc \in { "done", "failed" })

C40_Witness ==
    /\ chanClosed
    /\ spc = "failed"
    /\ consumer = "receiving"
    /\ Len(out) >= 2
    /\ delivered = Len(out)

====
